---- MODULE Spec2Model ----
(***************************************************************************)
(* Model of the failure-resilience core of the LinkedIn scraper:           *)
(*   src/src/utils/retry.py       exponential_backoff, retry,              *)
(*                                CircuitBreaker, with_circuit_breaker     *)
(*   src/src/utils/exceptions.py  the exception classes                    *)
(*                                                                         *)
(*   src/src/utils/rate_limiter.py  RateLimiter, RequestThrottler,         *)
(*                                SessionManager, RateLimitingManager      *)
(*                                                                         *)
(* Times of retry.py are integers in milliseconds; the clock `now` is the  *)
(* value time.time() returns.  Each later part states its own unit.        *)
(***************************************************************************)
EXTENDS Integers, Sequences, FiniteSets, TLC

(***************************************************************************)
(* Bounds of the model.                                                    *)
(***************************************************************************)
NumCallers == 2
MaxCalls == 4
MaxOverlappingCalls == 3
MaxAttempts == 3
MaxTime == 2
MaxThreshold == 2
MaxTimeout == 2

Callers == 1..NumCallers

(***************************************************************************)
(* Exception classes: src/src/utils/exceptions.py and the Python builtins  *)
(* the code names.  Parent(k) is the direct base class.                    *)
(***************************************************************************)
ExcTypes ==
  {"BaseException", "Exception", "KeyboardInterrupt", "SystemExit",
   "ValueError", "TypeError", "OSError", "ConnectionError", "TimeoutError",
   "LinkedInScraperError", "NetworkError", "RateLimitError", "BrowserError",
   "InvalidProfileURLError", "ValidationError", "MaxRetriesExceededError"}

Parent(k) ==
  CASE k = "Exception" -> "BaseException"
    [] k = "KeyboardInterrupt" -> "BaseException"
    [] k = "SystemExit" -> "BaseException"
    [] k = "ValueError" -> "Exception"
    [] k = "TypeError" -> "Exception"
    [] k = "OSError" -> "Exception"
    [] k = "ConnectionError" -> "OSError"
    [] k = "TimeoutError" -> "OSError"
    [] k = "LinkedInScraperError" -> "Exception"
    [] k = "NetworkError" -> "LinkedInScraperError"
    [] k = "RateLimitError" -> "LinkedInScraperError"
    [] k = "BrowserError" -> "LinkedInScraperError"
    [] k = "InvalidProfileURLError" -> "LinkedInScraperError"
    [] k = "ValidationError" -> "LinkedInScraperError"
    [] k = "MaxRetriesExceededError" -> "LinkedInScraperError"
    [] OTHER -> "BaseException"

RECURSIVE IsSubclass(_, _)
IsSubclass(k, cls) ==
  IF k = cls THEN TRUE
  ELSE IF k = "BaseException" THEN FALSE
  ELSE IsSubclass(Parent(k), cls)

\* `except classes as e`: does an exception of type k match the tuple?
Matches(k, classes) == \E cls \in classes : IsSubclass(k, cls)

(***************************************************************************)
(* CircuitBreaker (retry.py 151-213).                                      *)
(***************************************************************************)
NoTime == -1
NoResult == [kind |-> "pending", origin |-> "none"]
Returned == [kind |-> "return", origin |-> "operation"]
NoEntry == <<0, NoTime>>

\* what the wrapped operations of the model raise
BreakerOpRaises == {"ValueError", "LinkedInScraperError", "NetworkError"}
\* the expected_exception values the breakers of the model are built with
ExpectedKinds == {"Exception", "LinkedInScraperError"}

VARIABLES
  state,              \* self.state
  failure_count,      \* self.failure_count
  last_failure_time,  \* self.last_failure_time (NoTime = None)
  failure_threshold,  \* self.failure_threshold
  recovery_timeout,   \* self.recovery_timeout
  expected_exception, \* self.expected_exception
  now,                \* time.time()
  pc,                 \* per caller: position inside wrapper
  tmp,                \* per caller: value read by `self.failure_count += 1`
  trial,              \* per caller: func was invoked while HALF_OPEN
  result,             \* per caller: what the call returned or raised
  entry,              \* per caller, history: the counters when the call began
  calls,              \* number of wrapper calls started
  invocations,        \* number of invocations of func (call_count of the tests)
  failures_since_success, \* history: qualifying failures since the last success
  last_fail_at,       \* history: time of the last qualifying failure of func
  trial_fail_at,      \* history: time of the last qualifying failure of a trial
  trial_invocations   \* history: invocations of func since HALF_OPEN was entered

cbvars == <<state, failure_count, last_failure_time, failure_threshold,
            recovery_timeout, expected_exception, now, pc, tmp, trial, result,
            entry, calls, invocations, failures_since_success, last_fail_at,
            trial_fail_at, trial_invocations>>

VARIABLES
  max_attempts,       \* retry(max_attempts=...)
  retry_on,           \* retry(retry_on=...): set of exception classes
  stop_on,            \* retry(stop_on=...): set of exception classes
  before_retry,       \* retry(before_retry=...): "None", "ok" or "raises"
  reraise_as,         \* retry(reraise_as=...): "None" or an exception class
  rpc,                \* position inside retry's wrapper
  attempt,            \* the loop variable
  last_exception,     \* the local last_exception
  cur,                \* the exception `e` being handled
  branch,             \* the except clause being executed
  delay,              \* the local delay
  jit,                \* the jitter drawn by the last delay_func call
  call_count,         \* number of invocations of func
  raised,             \* history: type raised by each failed invocation
  sleeps,             \* history: the time.sleep calls
  callbacks,          \* history: the before_retry calls
  outcome             \* what wrapper returned or raised

rtvars == <<max_attempts, retry_on, stop_on, before_retry, reraise_as, rpc,
            attempt, last_exception, cur, branch, delay, jit, call_count,
            raised, sleeps, callbacks, outcome>>

VARIABLES
  bo_base_delay,      \* exponential_backoff(base_delay=...)
  bo_max_delay,       \* exponential_backoff(max_delay=...)
  bo_exponential_base, \* exponential_backoff(exponential_base=...)
  bo_jitter,          \* exponential_backoff(jitter=...)
  bo_attempt,         \* the argument of _calculate_delay
  bo_draw,            \* the draw of random.uniform
  bo_delay            \* the value _calculate_delay returned (NoDelay: not called yet)

bovars == <<bo_base_delay, bo_max_delay, bo_exponential_base, bo_jitter,
            bo_attempt, bo_draw, bo_delay>>

VARIABLES
  th_base_delay,      \* RequestThrottler.base_delay
  th_max_delay,       \* RequestThrottler.max_delay
  current_delay,      \* RequestThrottler.current_delay
  success_count,      \* RequestThrottler.success_count
  th_failure_count,   \* RequestThrottler.failure_count
  th_calls,           \* number of after_request calls made
  th_history          \* history: the arguments of the after_request calls

thvars == <<th_base_delay, th_max_delay, current_delay, success_count,
            th_failure_count, th_calls, th_history>>

VARIABLES
  requests_per_minute, \* RateLimitConfig.requests_per_minute
  requests_per_hour,  \* RateLimitConfig.requests_per_hour
  burst_limit,        \* RateLimitConfig.burst_limit
  cooldown_period,    \* RateLimitConfig.cooldown_period
  request_times,      \* RateLimiter.request_times
  hourly_requests,    \* RateLimiter.hourly_requests
  consecutive_requests, \* RateLimiter.consecutive_requests
  last_request_time,  \* RateLimiter.last_request_time
  cooldown_until,     \* RateLimiter.cooldown_until (NoTime = None)
  clock,              \* time.time(), in seconds
  ticks,              \* number of times the clock was advanced
  recorded,           \* history: the time of every record_request call
  cooldown_set_at,    \* history: the time of the last trigger_cooldown call
  op,                 \* "allow" right after a can_make_request call
  allowed             \* the value that can_make_request call returned

lmvars == <<requests_per_minute, requests_per_hour, burst_limit,
            cooldown_period, request_times, hourly_requests,
            consecutive_requests, last_request_time, cooldown_until, clock,
            ticks, recorded, cooldown_set_at, op, allowed>>

VARIABLES
  session_duration,   \* SessionManager.session_duration
  session_start,      \* SessionManager.session_start (NoTime = None)
  requests_in_session, \* SessionManager.requests_in_session
  max_requests_per_session, \* SessionManager.max_requests_per_session
  stats,              \* RateLimitingManager.stats
  reported            \* the value a get_stats call just returned

mgvars == <<session_duration, session_start, requests_in_session,
            max_requests_per_session, stats, reported>>

VARIABLES
  th_last_request_time, \* RequestThrottler.last_request_time, in seconds
  rotate,             \* the value a should_rotate_session call returned
  prepared,           \* what the last prepare_request call did and returned
  prepares            \* number of prepare_request calls made

prvars == <<th_last_request_time, rotate, prepared, prepares>>

VARIABLES
  lock,               \* RateLimiter.lock: 0 when free, else the holder
  cpc,                \* per concurrent caller: its position in the code
  creg,               \* per concurrent caller: its arguments and locals
  conc_calls,         \* number of calls the concurrent callers started
  returns,            \* history: time and delay of each before_request
  started             \* history: arguments of each record_request_result

ccvars == <<lock, cpc, creg, conc_calls, returns, started>>

VARIABLES
  skew,               \* time.time() minus the time really elapsed
  trigger_skew        \* history: skew at the last trigger_cooldown call

wcvars == <<skew, trigger_skew>>

morevars == <<bovars, thvars, lmvars, mgvars, prvars, ccvars, wcvars>>

vars == <<cbvars, rtvars, morevars>>

\* CircuitBreaker.__init__
CircuitBreakerInit(ft, rt, ee) ==
  /\ failure_threshold = ft
  /\ recovery_timeout = rt
  /\ expected_exception = ee
  /\ failure_count = 0
  /\ last_failure_time = NoTime
  /\ state = "CLOSED"

\* with_circuit_breaker: a breaker that counts LinkedInScraperError
with_circuit_breaker(ft, rt) == CircuitBreakerInit(ft, rt, "LinkedInScraperError")

BuiltByWithCircuitBreaker == expected_exception = "LinkedInScraperError"

(***************************************************************************)
(* Exceptions of the retry model are instances: the type and the number    *)
(* of the invocation of func that raised it.                               *)
(***************************************************************************)
NoExc == [type |-> "None", id |-> 0]
NoOutcome == [kind |-> "pending"]

\* retry's wrapper is not in use (the specifications of the other components)
RetryUnused ==
  /\ max_attempts = 0
  /\ retry_on = {}
  /\ stop_on = {}
  /\ before_retry = "None"
  /\ reraise_as = "None"
  /\ rpc = "unused"
  /\ attempt = 0
  /\ last_exception = NoExc
  /\ cur = NoExc
  /\ branch = "none"
  /\ delay = 0
  /\ jit = 0
  /\ call_count = 0
  /\ raised = <<>>
  /\ sleeps = <<>>
  /\ callbacks = <<>>
  /\ outcome = NoOutcome

\* no breaker call in progress (the specifications of the other components)
BreakerUnused ==
  /\ CircuitBreakerInit(1, 0, "Exception")
  /\ now = 0
  /\ pc = [c \in Callers |-> "idle"]
  /\ tmp = [c \in Callers |-> 0]
  /\ trial = [c \in Callers |-> FALSE]
  /\ result = [c \in Callers |-> NoResult]
  /\ entry = [c \in Callers |-> NoEntry]
  /\ calls = 0
  /\ invocations = 0
  /\ failures_since_success = 0
  /\ last_fail_at = NoTime
  /\ trial_fail_at = NoTime
  /\ trial_invocations = 0

\* exponential_backoff is not in use (the specifications of the other
\* components)
NoDelay == -1

BackoffUnused ==
  /\ bo_base_delay = 0
  /\ bo_max_delay = 0
  /\ bo_exponential_base = 0
  /\ bo_jitter = FALSE
  /\ bo_attempt = 0
  /\ bo_draw = 0
  /\ bo_delay = NoDelay

\* no RequestThrottler (the specifications of the other components)
ThrottlerUnused ==
  /\ th_base_delay = 0
  /\ th_max_delay = 0
  /\ current_delay = 0
  /\ success_count = 0
  /\ th_failure_count = 0
  /\ th_calls = 0
  /\ th_history = <<>>

\* no RateLimiter (the specifications of the other components)
LimiterUnused ==
  /\ requests_per_minute = 0
  /\ requests_per_hour = 0
  /\ burst_limit = 0
  /\ cooldown_period = 0
  /\ request_times = <<>>
  /\ hourly_requests = <<>>
  /\ consecutive_requests = 0
  /\ last_request_time = 0
  /\ cooldown_until = NoTime
  /\ clock = 0
  /\ ticks = 0
  /\ recorded = <<>>
  /\ cooldown_set_at = NoTime
  /\ op = "none"
  /\ allowed = FALSE

NoStats == [requests_made |-> 0, rate_limit_waits |-> 0,
            cooldowns_triggered |-> 0, sessions_rotated |-> 0]
NoReport == [in_cooldown |-> FALSE, cooldowns_triggered |-> -1]

\* no RateLimitingManager (the specifications of the other components)
ManagerUnused ==
  /\ session_duration = 0
  /\ session_start = NoTime
  /\ requests_in_session = 0
  /\ max_requests_per_session = 0
  /\ stats = NoStats
  /\ reported = NoReport

NoPrepared == [rotate_session |-> FALSE, limiter_wait |-> 0,
               throttle_sleep |-> 0, error |-> "None", denied |-> FALSE]

\* no prepare_request call made so far; RequestThrottler.__init__ sets
\* last_request_time = 0
PrepareIdle ==
  /\ th_last_request_time = 0
  /\ rotate = FALSE
  /\ prepared = NoPrepared
  /\ prepares = 0

NoRegisters == [call |-> "none", success |-> FALSE, detected |-> FALSE,
                tmp |-> 0, wake |-> 0]

\* no concurrent callers of the manager (one call at a time)
NoConcurrentCallers ==
  /\ lock = 0
  /\ cpc = [c \in Callers |-> "idle"]
  /\ creg = [c \in Callers |-> NoRegisters]
  /\ conc_calls = 0
  /\ returns = <<>>
  /\ started = <<>>

\* the system clock has not been set since the process started
WallClockUnadjusted ==
  /\ skew = 0
  /\ trigger_skew = 0

InitCB ==
  /\ RetryUnused
  /\ PrepareIdle
  /\ NoConcurrentCallers
  /\ WallClockUnadjusted
  /\ BackoffUnused
  /\ ThrottlerUnused
  /\ LimiterUnused
  /\ ManagerUnused
  /\ \E ft \in 1..MaxThreshold, rt \in 0..MaxTimeout :
       \/ \E ee \in ExpectedKinds : CircuitBreakerInit(ft, rt, ee)
       \/ with_circuit_breaker(ft, rt)
  /\ now = 0
  /\ pc = [c \in Callers |-> "idle"]
  /\ tmp = [c \in Callers |-> 0]
  /\ trial = [c \in Callers |-> FALSE]
  /\ result = [c \in Callers |-> NoResult]
  /\ entry = [c \in Callers |-> NoEntry]
  /\ calls = 0
  /\ invocations = 0
  /\ failures_since_success = 0
  /\ last_fail_at = NoTime
  /\ trial_fail_at = NoTime
  /\ trial_invocations = 0

\* CircuitBreaker._should_attempt_reset
should_attempt_reset ==
  IF last_failure_time = NoTime THEN TRUE
  ELSE now - last_failure_time >= recovery_timeout

\* the error raised while the circuit is open (retry.py 174-177)
CircuitOpenError == [kind |-> "LinkedInScraperError", origin |-> "breaker"]

\* a caller enters wrapper
Call(c) ==
  /\ pc[c] = "idle"
  /\ calls < MaxCalls
  /\ calls' = calls + 1
  /\ pc' = [pc EXCEPT ![c] = "check"]
  /\ result' = [result EXCEPT ![c] = NoResult]
  /\ trial' = [trial EXCEPT ![c] = FALSE]
  /\ entry' = [entry EXCEPT ![c] = <<failure_count, last_failure_time>>]
  /\ UNCHANGED <<rtvars, morevars>>
  /\ UNCHANGED <<state, failure_count, last_failure_time, failure_threshold,
                 recovery_timeout, expected_exception, now, tmp, invocations,
                 failures_since_success, last_fail_at, trial_fail_at,
                 trial_invocations>>

\* a caller enters wrapper while no other call is in progress
CallSeq(c) ==
  /\ \A d \in Callers : pc[d] = "idle"
  /\ Call(c)

\* `if self.state == 'OPEN':`
CheckState(c) ==
  /\ pc[c] = "check"
  /\ pc' = [pc EXCEPT ![c] = IF state = "OPEN" THEN "reset" ELSE "invoke"]
  /\ UNCHANGED <<rtvars, morevars>>
  /\ UNCHANGED entry
  /\ UNCHANGED <<state, failure_count, last_failure_time, failure_threshold,
                 recovery_timeout, expected_exception, now, tmp, trial, result,
                 calls, invocations, failures_since_success, last_fail_at,
                 trial_fail_at, trial_invocations>>

\* mutant of AttemptReset: a rejected call counts as a failure at the time
\* of the rejection
AttemptResetPostponing(c) ==
  /\ pc[c] = "reset"
  /\ IF should_attempt_reset
       THEN /\ pc' = [pc EXCEPT ![c] = "set_half_open"]
            /\ result' = result
            /\ UNCHANGED last_failure_time
       ELSE /\ pc' = [pc EXCEPT ![c] = "done"]
            /\ result' = [result EXCEPT ![c] = CircuitOpenError]
            /\ last_failure_time' = now
  /\ UNCHANGED <<rtvars, morevars>>
  /\ UNCHANGED entry
  /\ UNCHANGED <<state, failure_count, failure_threshold,
                 recovery_timeout, expected_exception, now, tmp, trial,
                 calls, invocations, failures_since_success, last_fail_at,
                 trial_fail_at, trial_invocations>>

\* `if self._should_attempt_reset(): ... else: raise LinkedInScraperError(...)`
AttemptReset(c) ==
  /\ pc[c] = "reset"
  /\ IF should_attempt_reset
       THEN /\ pc' = [pc EXCEPT ![c] = "set_half_open"]
            /\ result' = result
       ELSE /\ pc' = [pc EXCEPT ![c] = "done"]
            /\ result' = [result EXCEPT ![c] = CircuitOpenError]
  /\ UNCHANGED <<rtvars, morevars>>
  /\ UNCHANGED entry
  /\ UNCHANGED <<state, failure_count, last_failure_time, failure_threshold,
                 recovery_timeout, expected_exception, now, tmp, trial,
                 calls, invocations, failures_since_success, last_fail_at,
                 trial_fail_at, trial_invocations>>

\* `self.state = 'HALF_OPEN'`
SetHalfOpen(c) ==
  /\ pc[c] = "set_half_open"
  /\ state' = "HALF_OPEN"
  /\ trial_invocations' = IF state = "HALF_OPEN" THEN trial_invocations ELSE 0
  /\ pc' = [pc EXCEPT ![c] = "invoke"]
  /\ UNCHANGED <<rtvars, morevars>>
  /\ UNCHANGED entry
  /\ UNCHANGED <<failure_count, last_failure_time, failure_threshold,
                 recovery_timeout, expected_exception, now, tmp, trial, result,
                 calls, invocations, failures_since_success, last_fail_at,
                 trial_fail_at>>

\* `result = func(*args, **kwargs)`: the wrapped operation starts
Invoke(c) ==
  /\ pc[c] = "invoke"
  /\ invocations' = invocations + 1
  /\ trial' = [trial EXCEPT ![c] = (state = "HALF_OPEN")]
  /\ trial_invocations' =
       IF state = "HALF_OPEN" THEN trial_invocations + 1 ELSE trial_invocations
  /\ pc' = [pc EXCEPT ![c] = "running"]
  /\ UNCHANGED <<rtvars, morevars>>
  /\ UNCHANGED entry
  /\ UNCHANGED <<state, failure_count, last_failure_time, failure_threshold,
                 recovery_timeout, expected_exception, now, tmp, result,
                 calls, failures_since_success, last_fail_at, trial_fail_at>>

\* the wrapped operation returns normally
FuncReturns(c) ==
  /\ pc[c] = "running"
  /\ pc' = [pc EXCEPT ![c] = "on_success_count"]
  /\ result' = [result EXCEPT ![c] = Returned]
  /\ failures_since_success' = 0
  /\ UNCHANGED <<rtvars, morevars>>
  /\ UNCHANGED entry
  /\ UNCHANGED <<state, failure_count, last_failure_time, failure_threshold,
                 recovery_timeout, expected_exception, now, tmp, trial,
                 calls, invocations, last_fail_at, trial_fail_at,
                 trial_invocations>>

\* mutation: the handler catches every Exception
CaughtAsException(k) == IsSubclass(k, "Exception")

\* `except self.expected_exception as e:` does the handler catch type k?
CaughtByBreaker(k) == IsSubclass(k, expected_exception)

\* the wrapped operation raises an exception of type k
FuncRaises(c, k) ==
  /\ pc[c] = "running"
  /\ result' = [result EXCEPT ![c] = [kind |-> k, origin |-> "operation"]]
  /\ IF CaughtByBreaker(k)
       THEN /\ pc' = [pc EXCEPT ![c] = "on_failure_read"]
            /\ failures_since_success' = failures_since_success + 1
            /\ last_fail_at' = now
            /\ trial_fail_at' = IF trial[c] THEN now ELSE trial_fail_at
       ELSE /\ pc' = [pc EXCEPT ![c] = "done"]
            /\ UNCHANGED <<failures_since_success, last_fail_at, trial_fail_at>>
  /\ UNCHANGED <<rtvars, morevars>>
  /\ UNCHANGED entry
  /\ UNCHANGED <<state, failure_count, last_failure_time, failure_threshold,
                 recovery_timeout, expected_exception, now, tmp, trial,
                 calls, invocations, trial_invocations>>

\* mutation: a success keeps the counter
CountKept == failure_count

\* _on_success: the value `self.failure_count = 0` stores
CountAfterSuccess == 0

\* _on_success: `self.failure_count = 0`
OnSuccessCount(c) ==
  /\ pc[c] = "on_success_count"
  /\ failure_count' = CountAfterSuccess
  /\ pc' = [pc EXCEPT ![c] = "on_success_state"]
  /\ UNCHANGED <<rtvars, morevars>>
  /\ UNCHANGED entry
  /\ UNCHANGED <<state, last_failure_time, failure_threshold,
                 recovery_timeout, expected_exception, now, tmp, trial, result,
                 calls, invocations, failures_since_success, last_fail_at,
                 trial_fail_at, trial_invocations>>

\* _on_success: `self.state = 'CLOSED'`, then `return result`
OnSuccessState(c) ==
  /\ pc[c] = "on_success_state"
  /\ state' = "CLOSED"
  /\ pc' = [pc EXCEPT ![c] = "done"]
  /\ UNCHANGED <<rtvars, morevars>>
  /\ UNCHANGED entry
  /\ UNCHANGED <<failure_count, last_failure_time, failure_threshold,
                 recovery_timeout, expected_exception, now, tmp, trial, result,
                 calls, invocations, failures_since_success, last_fail_at,
                 trial_fail_at, trial_invocations>>

\* _on_failure: `self.failure_count += 1` reads the attribute ...
OnFailureRead(c) ==
  /\ pc[c] = "on_failure_read"
  /\ tmp' = [tmp EXCEPT ![c] = failure_count]
  /\ pc' = [pc EXCEPT ![c] = "on_failure_write"]
  /\ UNCHANGED <<rtvars, morevars>>
  /\ UNCHANGED entry
  /\ UNCHANGED <<state, failure_count, last_failure_time, failure_threshold,
                 recovery_timeout, expected_exception, now, trial, result,
                 calls, invocations, failures_since_success, last_fail_at,
                 trial_fail_at, trial_invocations>>

\* ... and stores the sum
OnFailureWrite(c) ==
  /\ pc[c] = "on_failure_write"
  /\ failure_count' = tmp[c] + 1
  /\ tmp' = [tmp EXCEPT ![c] = 0]
  /\ pc' = [pc EXCEPT ![c] = "on_failure_time"]
  /\ UNCHANGED <<rtvars, morevars>>
  /\ UNCHANGED entry
  /\ UNCHANGED <<state, last_failure_time, failure_threshold,
                 recovery_timeout, expected_exception, now, trial, result,
                 calls, invocations, failures_since_success, last_fail_at,
                 trial_fail_at, trial_invocations>>

\* mutation: only the first failure sets the time
TimeOfFirstFailure ==
  IF last_failure_time = NoTime THEN now ELSE last_failure_time

\* _on_failure: the value `self.last_failure_time = time.time()` stores
TimeOfFailure == now

\* _on_failure: `self.last_failure_time = time.time()`
OnFailureTime(c) ==
  /\ pc[c] = "on_failure_time"
  /\ last_failure_time' = TimeOfFailure
  /\ pc' = [pc EXCEPT ![c] = "on_failure_state"]
  /\ UNCHANGED <<rtvars, morevars>>
  /\ UNCHANGED entry
  /\ UNCHANGED <<state, failure_count, failure_threshold,
                 recovery_timeout, expected_exception, now, tmp, trial, result,
                 calls, invocations, failures_since_success, last_fail_at,
                 trial_fail_at, trial_invocations>>

\* mutation: the circuit opens one failure late
ThresholdExceeded == failure_count > failure_threshold

\* _on_failure: `if self.failure_count >= self.failure_threshold:`
ThresholdReached == failure_count >= failure_threshold

\* _on_failure: the threshold test and `self.state = 'OPEN'`, then `raise`
OnFailureState(c) ==
  /\ pc[c] = "on_failure_state"
  /\ state' = IF ThresholdReached THEN "OPEN" ELSE state
  /\ pc' = [pc EXCEPT ![c] = "done"]
  /\ UNCHANGED <<rtvars, morevars>>
  /\ UNCHANGED entry
  /\ UNCHANGED <<failure_count, last_failure_time, failure_threshold,
                 recovery_timeout, expected_exception, now, tmp, trial, result,
                 calls, invocations, failures_since_success, last_fail_at,
                 trial_fail_at, trial_invocations>>

\* the call has returned or raised to its caller
Return(c) ==
  /\ pc[c] = "done"
  /\ pc' = [pc EXCEPT ![c] = "idle"]
  /\ entry' = [entry EXCEPT ![c] = NoEntry]
  /\ result' = [result EXCEPT ![c] = NoResult]
  /\ trial' = [trial EXCEPT ![c] = FALSE]
  /\ UNCHANGED <<rtvars, morevars>>
  /\ UNCHANGED <<state, failure_count, last_failure_time, failure_threshold,
                 recovery_timeout, expected_exception, now, tmp,
                 calls, invocations, failures_since_success, last_fail_at,
                 trial_fail_at, trial_invocations>>

\* time passes
Tick ==
  /\ now < MaxTime
  /\ now' = now + 1
  /\ UNCHANGED <<rtvars, morevars>>
  /\ UNCHANGED entry
  /\ UNCHANGED <<state, failure_count, last_failure_time, failure_threshold,
                 recovery_timeout, expected_exception, pc, tmp, trial, result,
                 calls, invocations, failures_since_success, last_fail_at,
                 trial_fail_at, trial_invocations>>

Step(c) ==
  \/ CheckState(c)
  \/ AttemptReset(c)
  \/ SetHalfOpen(c)
  \/ Invoke(c)
  \/ FuncReturns(c)
  \/ \E k \in BreakerOpRaises : FuncRaises(c, k)
  \/ OnSuccessCount(c)
  \/ OnSuccessState(c)
  \/ OnFailureRead(c)
  \/ OnFailureWrite(c)
  \/ OnFailureTime(c)
  \/ OnFailureState(c)
  \/ Return(c)

\* a caller enters wrapper, possibly while other calls are in progress
CallOverlapping(c) ==
  /\ calls < MaxOverlappingCalls
  /\ Call(c)

\* several callers share one breaker; their calls overlap
Next ==
  \/ \E c \in Callers : CallOverlapping(c)
  \/ \E c \in Callers : Step(c)
  \/ Tick

Spec == InitCB /\ [][Next]_vars

\* one call at a time
NextSeq ==
  \/ \E c \in Callers : CallSeq(c)
  \/ \E c \in Callers : Step(c)
  \/ Tick

SpecSeq == InitCB /\ [][NextSeq]_vars

(***************************************************************************)
(* Properties of CircuitBreaker.                                           *)
(***************************************************************************)
\* caller c takes the step that decides whether its call is admitted
GateStep(c) == pc[c] \in {"check", "reset"} /\ pc'[c] # pc[c]

\* ... and the step does not admit the call: the call goes on to the timeout
\* test or ends with the circuit-open error, and func is not invoked
NotAdmitted(c) ==
  /\ pc'[c] \in {"reset", "done"}
  /\ pc'[c] = "done" => result'[c] = CircuitOpenError
  /\ invocations' = invocations

\* all invocations so far were qualifying failures, failure_threshold of them,
\* and the last is less than recovery_timeout ago
ThresholdJustReached ==
  /\ invocations = failure_threshold
  /\ failures_since_success = failure_threshold
  /\ now - last_fail_at < recovery_timeout

\* C1: with one call at a time, once a fresh breaker has seen exactly
\* failure_threshold invocations, all qualifying failures, a call made less
\* than recovery_timeout after the last of them is rejected with the
\* circuit-open error and the invocation count stays at failure_threshold.
C1_RejectedAfterThreshold ==
  [][\A c \in Callers :
       (GateStep(c) /\ ThresholdJustReached)
         => (NotAdmitted(c) /\ invocations' = failure_threshold)]_vars

C1_Witness ==
  \E c \in Callers :
    /\ pc[c] = "done"
    /\ result[c] = CircuitOpenError
    /\ failure_threshold = 2
    /\ ThresholdJustReached

\* C2: while the breaker is HALF_OPEN, func has been invoked at most once
\* since the breaker became HALF_OPEN.
C2_SingleTrial == state = "HALF_OPEN" => trial_invocations <= 1

\* C3: with one call at a time, a trial call that fails with a qualifying
\* exception leaves the breaker OPEN with last_failure_time not before the
\* failure, and every call made less than recovery_timeout after that trial
\* failure is rejected without invoking func.
C3_TrialFailureReopens ==
  [][\A c \in Callers :
       /\ (pc[c] = "on_failure_state" /\ pc'[c] = "done" /\ trial[c])
            => (state' = "OPEN" /\ last_failure_time' >= trial_fail_at)
       /\ (GateStep(c) /\ trial_fail_at # NoTime
             /\ now - trial_fail_at < recovery_timeout)
            => NotAdmitted(c)]_vars

C3_Witness ==
  \E c \in Callers :
    /\ pc[c] = "done"
    /\ result[c] = CircuitOpenError
    /\ trial_fail_at # NoTime
    /\ trial_fail_at > 0
    /\ now - trial_fail_at < recovery_timeout

\* C4: with one call at a time, a trial call whose operation succeeds returns
\* the result, leaves state CLOSED and failure_count 0; and a call is rejected
\* only after failure_threshold qualifying failures since the last success.
C4_TrialSuccessCloses ==
  [][\A c \in Callers :
       /\ (pc[c] = "on_success_state" /\ pc'[c] = "done" /\ trial[c])
            => (state' = "CLOSED" /\ failure_count' = 0 /\ result'[c] = Returned)
       /\ (pc[c] = "reset" /\ pc'[c] = "done")
            => failures_since_success >= failure_threshold]_vars

\* a trial made after recovery_timeout > 0 has elapsed has just succeeded
C4_Witness ==
  \E c \in Callers :
    /\ pc[c] = "done"
    /\ trial[c]
    /\ result[c] = Returned
    /\ state = "CLOSED"
    /\ failure_count = 0
    /\ failure_threshold = 2
    /\ recovery_timeout > 0
    /\ now - last_fail_at >= recovery_timeout

AllowedTransitions ==
  { <<"CLOSED", "OPEN">>, <<"OPEN", "HALF_OPEN">>,
    <<"HALF_OPEN", "CLOSED">>, <<"HALF_OPEN", "OPEN">> }

\* C5: every change of state is CLOSED->OPEN, OPEN->HALF_OPEN,
\* HALF_OPEN->CLOSED or HALF_OPEN->OPEN.
C5_OnlyAllowedTransitions ==
  [][state' # state => <<state, state'>> \in AllowedTransitions]_vars

\* C6: a call that ends with an exception of func that is not of the expected
\* kind leaves failure_count and last_failure_time as they were when it began.
C6_UnexpectedLeavesCounters ==
  \A c \in Callers :
    (/\ pc[c] = "done"
     /\ result[c].origin = "operation"
     /\ result[c].kind # "return"
     /\ ~IsSubclass(result[c].kind, expected_exception))
      => entry[c] = <<failure_count, last_failure_time>>

\* an unexpected exception after a counted failure
C6_Witness ==
  \E c \in Callers :
    /\ pc[c] = "done"
    /\ result[c] = [kind |-> "ValueError", origin |-> "operation"]
    /\ expected_exception = "LinkedInScraperError"
    /\ failure_count = 1
    /\ last_failure_time # NoTime
    /\ entry[c] = <<failure_count, last_failure_time>>

\* C7: for a breaker built by with_circuit_breaker, no error raised by the
\* breaker itself has the kind of an error raised by the wrapped operation.
C7_CircuitOpenKindDistinct ==
  BuiltByWithCircuitBreaker =>
    \A c, d \in Callers :
      (result[c].origin = "breaker" /\ result[d].origin = "operation")
        => result[c].kind # result[d].kind

(***************************************************************************)
(* exponential_backoff (retry.py 20-44).                                   *)
(***************************************************************************)
DefaultBaseDelay == 1000
DefaultMaxDelay == 60000
DefaultExponentialBase == 2
JitterPercent == 25
MinimumDelay == 100

\* the draws of random.uniform(-jitter_range, jitter_range) the model takes:
\* both ends and the middle
JitterDraws == {-1, 0, 1}

Min(a, b) == IF a <= b THEN a ELSE b
Max(a, b) == IF a >= b THEN a ELSE b

RECURSIVE Pow(_, _)
Pow(b, n) == IF n = 0 THEN 1 ELSE b * Pow(b, n - 1)

\* mutant of CalculateDelay: a jitter range of half the delay
CalculateDelayWideJitter(base_delay, max_delay, exponential_base, jitter, n, j) ==
  LET capped == Min(base_delay * Pow(exponential_base, n), max_delay)
      jitter_range == capped \div 2
      jittered == IF jitter THEN capped + jitter_range * j ELSE capped
  IN  Max(jittered, MinimumDelay)

\* _calculate_delay(attempt) with the jitter draw j
CalculateDelay(base_delay, max_delay, exponential_base, jitter, n, j) ==
  LET capped == Min(base_delay * Pow(exponential_base, n), max_delay)
      jitter_range == (capped * JitterPercent) \div 100
      jittered == IF jitter THEN capped + jitter_range * j ELSE capped
  IN  Max(jittered, MinimumDelay)

\* delay_func = exponential_backoff() (retry.py 67-68)
delay_func(n, j) ==
  CalculateDelay(DefaultBaseDelay, DefaultMaxDelay, DefaultExponentialBase,
                 TRUE, n, j)

(***************************************************************************)
(* retry (retry.py 47-148).                                                *)
(***************************************************************************)
\* retry.py 70-74
DefaultRetryOn ==
  {"NetworkError", "RateLimitError", "BrowserError", "ConnectionError",
   "TimeoutError"}
DefaultStopOn == {"KeyboardInterrupt", "SystemExit"}

\* the classifications the model is run with: the defaults, and one whose
\* fatal class is a subclass of a retryable class
Classifications ==
  { [retry_on |-> DefaultRetryOn, stop_on |-> DefaultStopOn],
    [retry_on |-> {"LinkedInScraperError"}, stop_on |-> {"ValidationError"}] }

\* what the wrapped operations of the retry model raise
RetryOpRaises == {"NetworkError", "ValueError", "ValidationError", "KeyboardInterrupt"}

\* the before_retry callbacks of the model: none, one that returns, one that
\* raises an Exception, one that raises SystemExit
BeforeRetryKinds == {"None", "ok", "raises", "exits"}

\* what the callback raises
CallbackRaises(cb) ==
  CASE cb = "raises" -> "ValueError"
    [] cb = "exits" -> "SystemExit"
    [] OTHER -> "None"
ReraiseAsKinds == {"None", "MaxRetriesExceededError", "NetworkError"}

InitRetry ==
  /\ BreakerUnused
  /\ PrepareIdle
  /\ NoConcurrentCallers
  /\ WallClockUnadjusted
  /\ BackoffUnused
  /\ ThrottlerUnused
  /\ LimiterUnused
  /\ ManagerUnused
  /\ max_attempts \in 0..MaxAttempts
  /\ \E cl \in Classifications :
       /\ retry_on = cl.retry_on
       /\ stop_on = cl.stop_on
  /\ before_retry \in BeforeRetryKinds
  /\ reraise_as \in ReraiseAsKinds
  /\ rpc = "loop"
  /\ attempt = 0
  /\ last_exception = NoExc
  /\ cur = NoExc
  /\ branch = "none"
  /\ delay = 0
  /\ jit = 0
  /\ call_count = 0
  /\ raised = <<>>
  /\ sleeps = <<>>
  /\ callbacks = <<>>
  /\ outcome = NoOutcome

\* mutation: the retry_on clause comes before the stop_on clause
ExceptClauseRetryFirst(k) ==
  IF Matches(k, retry_on) THEN "retry_on"
  ELSE IF Matches(k, stop_on) THEN "stop_on"
  ELSE IF IsSubclass(k, "Exception") THEN "unexpected"
  ELSE "uncaught"

\* the except clause that handles an exception of type k (retry.py 91-118)
ExceptClause(k) ==
  IF Matches(k, stop_on) THEN "stop_on"
  ELSE IF Matches(k, retry_on) THEN "retry_on"
  ELSE IF IsSubclass(k, "Exception") THEN "unexpected"
  ELSE "uncaught"

\* only MaxRetriesExceededError.__init__ takes attempts and last_error
\* (exceptions.py 10, 33, 88)
AcceptsRetryArguments(cls) == IsSubclass(cls, "MaxRetriesExceededError")

\* `raise cls(error_msg, attempts=..., last_error=...)` (retry.py 134-145)
RaiseExhausted(cls, n, last) ==
  IF AcceptsRetryArguments(cls)
    THEN [kind |-> "raise", type |-> cls, attempts |-> n, last_error |-> last]
    ELSE [kind |-> "raise", type |-> "TypeError", attempts |-> -1,
          last_error |-> NoExc]

\* `for attempt in range(max_attempts):` and the call of func
LoopHead ==
  /\ rpc = "loop"
  /\ IF attempt < max_attempts
       THEN /\ rpc' = "func"
            /\ call_count' = call_count + 1
       ELSE /\ rpc' = "exhausted"
            /\ UNCHANGED call_count
  /\ UNCHANGED <<cbvars, morevars>>
  /\ UNCHANGED <<max_attempts, retry_on, stop_on, before_retry, reraise_as,
                 attempt, last_exception, cur, branch, delay, jit, raised,
                 sleeps, callbacks, outcome>>

\* func returns: `return result`
OpReturns ==
  /\ rpc = "func"
  /\ rpc' = "done"
  /\ outcome' = [kind |-> "return"]
  /\ UNCHANGED <<cbvars, morevars>>
  /\ UNCHANGED <<max_attempts, retry_on, stop_on, before_retry, reraise_as,
                 attempt, last_exception, cur, branch, delay, jit, call_count,
                 raised, sleeps, callbacks>>

\* the last attempt failed: `if attempt == max_attempts - 1:`
IsLastAttempt == attempt = max_attempts - 1

\* func raises an exception of type k: the except clauses up to the delay
OpRaises(k) ==
  /\ rpc = "func"
  /\ LET e == [type |-> k, id |-> call_count]
         clause == ExceptClause(k)
     IN  /\ raised' = Append(raised, k)
         /\ cur' = e
         /\ branch' = clause
         /\ CASE clause \in {"stop_on", "uncaught"} ->
                   /\ rpc' = "done"
                   /\ outcome' = [kind |-> "raise", type |-> k, id |-> e.id]
                   /\ UNCHANGED last_exception
              [] clause = "retry_on" ->
                   /\ last_exception' = e
                   /\ rpc' = IF IsLastAttempt THEN "exhausted" ELSE "delay"
                   /\ UNCHANGED outcome
              [] clause = "unexpected" ->
                   /\ last_exception' = IF IsLastAttempt THEN e ELSE last_exception
                   /\ rpc' = IF IsLastAttempt THEN "exhausted" ELSE "delay"
                   /\ UNCHANGED outcome
  /\ UNCHANGED <<cbvars, morevars>>
  /\ UNCHANGED <<max_attempts, retry_on, stop_on, before_retry, reraise_as,
                 attempt, delay, jit, call_count, sleeps, callbacks>>

\* mutation: the delay of the next attempt index
DelayForNextAttempt(clause, n, j) ==
  IF clause = "unexpected" THEN delay_func(n + 1, j) \div 2
  ELSE delay_func(n + 1, j)

\* `delay = delay_func(attempt)`, halved in the clause for unexpected errors
DelayFor(clause, n, j) ==
  IF clause = "unexpected" THEN delay_func(n, j) \div 2 ELSE delay_func(n, j)

\* does the clause call before_retry? (retry.py 110)
CallsBeforeRetry(clause) == clause = "retry_on" /\ before_retry # "None"

ComputeDelay(j) ==
  /\ rpc = "delay"
  /\ jit' = j
  /\ delay' = DelayFor(branch, attempt, j)
  /\ rpc' = IF CallsBeforeRetry(branch) THEN "callback" ELSE "sleep"
  /\ UNCHANGED <<cbvars, morevars>>
  /\ UNCHANGED <<max_attempts, retry_on, stop_on, before_retry, reraise_as,
                 attempt, last_exception, cur, branch, call_count, raised,
                 sleeps, callbacks, outcome>>

\* mutation: before_retry is called outside a try statement
CallbackErrorPropagates(k) == k = "None"

\* `except Exception as callback_error:` (retry.py 113); "None": the callback
\* returned
CallbackErrorCaught(k) == k = "None" \/ IsSubclass(k, "Exception")

\* `before_retry(attempt, e, delay)` in its try statement (retry.py 110-114)
BeforeRetry ==
  /\ rpc = "callback"
  /\ callbacks' = Append(callbacks, [attempt |-> attempt, exc |-> cur, delay |-> delay])
  /\ IF CallbackErrorCaught(CallbackRaises(before_retry))
       THEN /\ rpc' = "sleep"
            /\ UNCHANGED outcome
       ELSE /\ rpc' = "done"
            /\ outcome' = [kind |-> "raise",
                           type |-> CallbackRaises(before_retry), id |-> 0]
  /\ UNCHANGED <<cbvars, morevars>>
  /\ UNCHANGED <<max_attempts, retry_on, stop_on, before_retry, reraise_as,
                 attempt, last_exception, cur, branch, delay, jit, call_count,
                 raised, sleeps>>

\* mutation: an unexpected error does not use up an attempt
NextAttemptUnlessUnexpected(clause, n) ==
  IF clause = "unexpected" THEN n ELSE n + 1

\* the next value of `for attempt in range(max_attempts)`, whatever the
\* except clause that ended the iteration (retry.py 81)
NextAttempt(clause, n) == n + 1

\* `time.sleep(delay)`, then the next iteration of the loop
Sleep ==
  /\ rpc = "sleep"
  /\ sleeps' = Append(sleeps, [attempt |-> attempt, jit |-> jit, slept |-> delay])
  /\ last_exception' = IF branch = "unexpected" THEN cur ELSE last_exception
  /\ attempt' = NextAttempt(branch, attempt)
  /\ rpc' = "loop"
  /\ UNCHANGED <<cbvars, morevars>>
  /\ UNCHANGED <<max_attempts, retry_on, stop_on, before_retry, reraise_as,
                 cur, branch, delay, jit, call_count, raised, callbacks,
                 outcome>>

\* the class of the final error (retry.py 134, 141)
ExhaustedClass == IF reraise_as # "None" THEN reraise_as ELSE "MaxRetriesExceededError"

\* "All attempts failed" (retry.py 131-145)
Exhausted ==
  /\ rpc = "exhausted"
  /\ outcome' = RaiseExhausted(ExhaustedClass, max_attempts, last_exception)
  /\ rpc' = "done"
  /\ UNCHANGED <<cbvars, morevars>>
  /\ UNCHANGED <<max_attempts, retry_on, stop_on, before_retry, reraise_as,
                 attempt, last_exception, cur, branch, delay, jit, call_count,
                 raised, sleeps, callbacks>>

NextRetry ==
  \/ LoopHead
  \/ OpReturns
  \/ \E k \in RetryOpRaises : OpRaises(k)
  \/ \E j \in JitterDraws : ComputeDelay(j)
  \/ BeforeRetry
  \/ Sleep
  \/ Exhausted

SpecRetry == InitRetry /\ [][NextRetry]_vars

\* the thread that called wrapper keeps running, and func returns or raises
SpecRetryLive == InitRetry /\ [][NextRetry]_vars /\ WF_vars(NextRetry)

(***************************************************************************)
(* Properties of retry.                                                    *)
(***************************************************************************)
\* every invocation of func so far raised, and every exception was handled
\* by the retry_on clause
AlwaysRetryable ==
  /\ Len(raised) = call_count
  /\ \A i \in 1..Len(raised) : Matches(raised[i], retry_on)
  /\ \A i \in 1..Len(raised) : ~Matches(raised[i], stop_on)

\* C8: when every invocation raised a retryable error and max_attempts >= 1,
\* wrapper ends after exactly max_attempts invocations by raising
\* MaxRetriesExceededError (reraise_as when given) with attempts =
\* max_attempts and last_error the exception of the last invocation.
C8_ExhaustedAfterMaxAttempts ==
  (rpc = "done" /\ max_attempts >= 1 /\ AlwaysRetryable)
    => /\ call_count = max_attempts
       /\ outcome = [kind |-> "raise", type |-> ExhaustedClass,
                     attempts |-> max_attempts,
                     last_error |-> [type |-> raised[max_attempts],
                                     id |-> max_attempts]]

\* C9: once an invocation has raised an exception classified fatal (matched
\* by stop_on), it is the last invocation, wrapper has raised that same
\* exception, and the only sleeps and before_retry calls are those made
\* after the earlier failures.
C9_FatalPropagatesImmediately ==
  \A i \in 1..Len(raised) :
    Matches(raised[i], stop_on)
      => /\ rpc = "done"
         /\ Len(raised) = i
         /\ call_count = i
         /\ outcome = [kind |-> "raise", type |-> raised[i], id |-> i]
         /\ Len(sleeps) = i - 1
         /\ \A n \in 1..Len(callbacks) : callbacks[n].attempt < i - 1

\* a fatal exception that is also an instance of a retry_on class, raised
\* after a retryable failure
C9_Witness ==
  /\ rpc = "done"
  /\ raised = <<"NetworkError", "ValidationError">>
  /\ stop_on = {"ValidationError"}
  /\ before_retry # "None"
  /\ outcome = [kind |-> "raise", type |-> "ValidationError", id |-> 2]

\* C10: when func raised retryable errors on its first k invocations and
\* then returned, wrapper returned after k + 1 invocations (k < max_attempts)
\* and k sleeps, the i-th sleep being delay_func of attempt index i - 1.
C10_SucceedsAfterRetries ==
  (/\ rpc = "done"
   /\ outcome = [kind |-> "return"]
   /\ \A i \in 1..Len(raised) : ExceptClause(raised[i]) = "retry_on")
    => /\ Len(raised) < max_attempts
       /\ call_count = Len(raised) + 1
       /\ Len(sleeps) = Len(raised)
       /\ \A i \in 1..Len(sleeps) :
            /\ sleeps[i].attempt = i - 1
            /\ sleeps[i].slept = delay_func(i - 1, sleeps[i].jit)

C10_Witness ==
  /\ rpc = "done"
  /\ outcome = [kind |-> "return"]
  /\ raised = <<"NetworkError", "NetworkError">>
  /\ Len(sleeps) = 2
  /\ sleeps[2].jit = 1

\* the exception func raised at its i-th invocation, as wrapper sees it
RaisedAt(i) == [type |-> raised[i], id |-> i]

\* the three ways out of wrapper: `return result`, the exception of func
\* passing through, and the raise statement after the loop
EndsByReturn == outcome = [kind |-> "return"]
EndsByPropagation ==
  /\ raised # <<>>
  /\ ExceptClause(raised[Len(raised)]) \in {"stop_on", "uncaught"}
  /\ outcome = [kind |-> "raise", type |-> raised[Len(raised)],
                id |-> Len(raised)]
EndsByExhaustion ==
  outcome = RaiseExhausted(ExhaustedClass, max_attempts, last_exception)

\* C11: whatever mix of retryable and unclassified exceptions func raises,
\* wrapper invokes func at most max_attempts times, every failed invocation
\* that is retried has used up one attempt whichever except clause handled
\* it, and wrapper terminates: by returning, by letting the exception of func
\* through, or by the raise statement after the loop.
C11_BoundedAttempts ==
  /\ [](/\ call_count <= max_attempts
        /\ rpc = "loop" => (attempt = Len(raised) /\ attempt = call_count)
        /\ (rpc = "done" /\ before_retry # "exits")
             => (EndsByReturn \/ EndsByPropagation \/ EndsByExhaustion))
  /\ <>(rpc = "done")

\* exhausted after a retryable, an unclassified and a retryable failure
C11_Witness ==
  /\ rpc = "done"
  /\ max_attempts = 3
  /\ raised = <<"NetworkError", "ValueError", "NetworkError">>
  /\ call_count = 3
  /\ EndsByExhaustion

\* wrapper raised the retries-exhausted error
ExhaustedErrorRaised ==
  /\ rpc = "done"
  /\ AcceptsRetryArguments(ExhaustedClass)
  /\ EndsByExhaustion

\* C12: whenever wrapper has raised the retries-exhausted error, func was
\* invoked at least once, last_error is the exception of its final
\* invocation and attempts is the number of invocations made.
C12_ExhaustedCarriesLastError ==
  ExhaustedErrorRaised
    => /\ raised # <<>>
       /\ outcome.last_error = RaisedAt(Len(raised))
       /\ outcome.attempts = call_count

\* what wrapper returns or raises as a function of what func did alone
OutcomeOfFunc ==
  IF Len(raised) < call_count THEN [kind |-> "return"]
  ELSE IF raised = <<>>
    THEN RaiseExhausted(ExhaustedClass, max_attempts, NoExc)
  ELSE IF ExceptClause(raised[Len(raised)]) \in {"stop_on", "uncaught"}
    THEN [kind |-> "raise", type |-> raised[Len(raised)], id |-> Len(raised)]
  ELSE RaiseExhausted(ExhaustedClass, max_attempts, RaisedAt(Len(raised)))

\* the failed invocations that were followed by another one
RetriedFailures == 1..(call_count - 1)

\* C13: with a before_retry callback that raises an Exception, as with one
\* that returns, wrapper ends with the outcome func alone determines, having
\* slept once after every retried failure and called before_retry once for
\* every retried failure of the retry_on clause.
C13_CallbackErrorIgnored ==
  (rpc = "done" /\ before_retry \in {"ok", "raises"})
    => /\ outcome = OutcomeOfFunc
       /\ Len(sleeps) = Cardinality(RetriedFailures)
       /\ Len(callbacks) =
            Cardinality({i \in RetriedFailures :
                           ExceptClause(raised[i]) = "retry_on"})

\* the callback raised after each of two failures and func then returned
C13_Witness ==
  /\ rpc = "done"
  /\ before_retry = "raises"
  /\ raised = <<"NetworkError", "NetworkError">>
  /\ Len(callbacks) = 2
  /\ Len(sleeps) = 2
  /\ outcome = [kind |-> "return"]

(***************************************************************************)
(* exponential_backoff as a program: the closure is built with arguments   *)
(* drawn in BackoffInit and _calculate_delay is then called with any       *)
(* attempt index and jitter draw.  Times are in milliseconds.              *)
(***************************************************************************)
MaxAttemptIndex == 6

BaseDelays == {500, 1000, 2000}
MaxDelays == {40, 10000, 60000}
ExponentialBases == {2, 3}

BackoffInit ==
  /\ BreakerUnused
  /\ PrepareIdle
  /\ NoConcurrentCallers
  /\ WallClockUnadjusted
  /\ RetryUnused
  /\ ThrottlerUnused
  /\ LimiterUnused
  /\ ManagerUnused
  /\ bo_base_delay \in BaseDelays
  /\ bo_max_delay \in MaxDelays
  /\ bo_exponential_base \in ExponentialBases
  /\ bo_jitter \in BOOLEAN
  /\ bo_attempt = 0
  /\ bo_draw = 0
  /\ bo_delay = NoDelay

\* one call of the closure exponential_backoff returned
calculate_delay(n, j) ==
  /\ bo_attempt' = n
  /\ bo_draw' = j
  /\ bo_delay' = CalculateDelay(bo_base_delay, bo_max_delay,
                                bo_exponential_base, bo_jitter, n, j)
  /\ UNCHANGED <<bo_base_delay, bo_max_delay, bo_exponential_base, bo_jitter>>
  /\ UNCHANGED <<wcvars, cbvars, rtvars, prvars, ccvars, thvars, lmvars,
                 mgvars>>

NextBackoff ==
  \E n \in 0..MaxAttemptIndex, j \in JitterDraws : calculate_delay(n, j)

SpecBackoff == BackoffInit /\ [][NextBackoff]_vars

\* C14: every delay _calculate_delay returns is at least the minimum delay
\* (0.1 s) and at most max_delay.
C14_DelayWithinBounds ==
  bo_delay # NoDelay
    => (MinimumDelay <= bo_delay /\ bo_delay <= bo_max_delay)

(***************************************************************************)
(* RequestThrottler (rate_limiter.py 246-292), one thread calling          *)
(* after_request.  Delays are integers in microseconds, so that the        *)
(* products by 0.9 and by 1.5 + 0.1 * failure_count are exact for the      *)
(* runs of the model.                                                      *)
(***************************************************************************)
MaxThrottleCalls == 10

Second == 1000000

\* RequestThrottler(base_delay, max_delay): the defaults (1.0, 30.0), a
\* narrow range, equal ends, a zero base, and a base above max_delay
ThrottlerConfigs ==
  { [base_delay |-> Second, max_delay |-> 30 * Second],
    [base_delay |-> 2 * Second, max_delay |-> 3 * Second],
    [base_delay |-> 5 * Second, max_delay |-> 5 * Second],
    [base_delay |-> 0, max_delay |-> 30 * Second],
    [base_delay |-> 5 * Second, max_delay |-> 2 * Second] }

\* RequestThrottler.__init__
RequestThrottlerInit(cfg) ==
  /\ th_base_delay = cfg.base_delay
  /\ th_max_delay = cfg.max_delay
  /\ current_delay = cfg.base_delay
  /\ success_count = 0
  /\ th_failure_count = 0

ThrottlerInit ==
  /\ BreakerUnused
  /\ PrepareIdle
  /\ NoConcurrentCallers
  /\ WallClockUnadjusted
  /\ RetryUnused
  /\ BackoffUnused
  /\ LimiterUnused
  /\ ManagerUnused
  /\ \E cfg \in ThrottlerConfigs : RequestThrottlerInit(cfg)
  /\ th_calls = 0
  /\ th_history = <<>>

\* `if self.success_count >= 5:`
DecayStreak == 5

\* mutation: the decay is not floored at base_delay
DecayedUnfloored(d) == (d * 9) \div 10

\* `max(self.base_delay, self.current_delay * 0.9)`
Decayed(d) == Max(th_base_delay, (d * 9) \div 10)

\* mutation: the factor of the failure streak before this failure
GrowthFactorOfEarlierStreak(fc) == 15 + (fc - 1)

\* `1.5 + (self.failure_count * 0.1)`, in tenths
GrowthFactor(fc) == 15 + fc

\* `min(self.max_delay, self.current_delay * (1.5 + ...))`
Grown(d, fc) == Min(th_max_delay, (d * GrowthFactor(fc)) \div 10)

\* RequestThrottler.after_request(success)
after_request(success) ==
  /\ IF success
       THEN /\ th_failure_count' = 0
            /\ IF success_count + 1 >= DecayStreak
                 THEN /\ current_delay' = Decayed(current_delay)
                      /\ success_count' = 0
                 ELSE /\ success_count' = success_count + 1
                      /\ UNCHANGED current_delay
       ELSE /\ th_failure_count' = th_failure_count + 1
            /\ success_count' = 0
            /\ current_delay' = Grown(current_delay, th_failure_count + 1)
  /\ UNCHANGED <<th_base_delay, th_max_delay>>

\* a caller of the throttler calls after_request
AfterRequest(success) ==
  /\ th_calls < MaxThrottleCalls
  /\ after_request(success)
  /\ th_calls' = th_calls + 1
  /\ th_history' = Append(th_history, success)
  /\ UNCHANGED <<wcvars, cbvars, rtvars, prvars, ccvars, bovars, lmvars,
                 mgvars>>

NextThrottler == \E success \in BOOLEAN : AfterRequest(success)

SpecThrottler == ThrottlerInit /\ [][NextThrottler]_vars

\* C19: for base_delay <= max_delay, after every sequence of after_request
\* calls base_delay <= current_delay <= max_delay.
C19_DelayWithinRange ==
  th_base_delay <= th_max_delay
    => (th_base_delay <= current_delay /\ current_delay <= th_max_delay)

\* base_delay 1.0, max_delay 30.0: five failures, then five successes
C19_Witness ==
  /\ th_base_delay = Second
  /\ th_max_delay = 30 * Second
  /\ th_history = <<FALSE, FALSE, FALSE, FALSE, FALSE,
                    TRUE, TRUE, TRUE, TRUE, TRUE>>
  /\ current_delay = 16744320

\* the number of calls at the end of h that had the outcome b
RECURSIVE Trailing(_, _)
Trailing(h, b) ==
  IF h = <<>> \/ h[Len(h)] # b THEN 0
  ELSE 1 + Trailing(SubSeq(h, 1, Len(h) - 1), b)

\* the reference update rule, applied to a whole history: a success that
\* brings the success streak to 5 sets the delay to max(base_delay, 0.9 *
\* delay) and restarts the streak; the k-th consecutive failure sets it to
\* min(max_delay, delay * (1.5 + 0.1 * k))
RECURSIVE ReferenceDelay(_)
ReferenceDelay(h) ==
  IF h = <<>> THEN th_base_delay
  ELSE LET d == ReferenceDelay(SubSeq(h, 1, Len(h) - 1))
       IN  IF h[Len(h)]
             THEN IF Trailing(h, TRUE) % 5 = 0
                    THEN Max(th_base_delay, (d * 9) \div 10)
                    ELSE d
             ELSE Min(th_max_delay, (d * (15 + Trailing(h, FALSE))) \div 10)

\* C20: after every sequence of after_request calls the throttler is in the
\* state the reference rule gives: the success streak is the number of
\* successes since the last failure or decay, the failure streak is the
\* number of consecutive failures, and current_delay is the reference delay,
\* whose growth factor is larger at each further consecutive failure.
C20_AfterMatchesReference ==
  /\ success_count = Trailing(th_history, TRUE) % 5
  /\ th_failure_count = Trailing(th_history, FALSE)
  /\ current_delay = ReferenceDelay(th_history)
  /\ (Len(th_history) >= 2 /\ Trailing(th_history, FALSE) >= 2)
       => GrowthFactor(th_failure_count) > GrowthFactor(th_failure_count - 1)

\* two failures (factors 1.6 and 1.7), then the fifth success in a row
C20_Witness ==
  /\ th_base_delay = Second
  /\ th_history = <<FALSE, FALSE, TRUE, TRUE, TRUE, TRUE, TRUE>>
  /\ current_delay = 2448000
  /\ success_count = 0

(***************************************************************************)
(* RateLimiter (rate_limiter.py 31-144).  Every method body runs under     *)
(* self.lock, so each is one action.  Times are integers in seconds;       *)
(* `clock` is the value of time.time(), which starts at Epoch.             *)
(***************************************************************************)
MaxRecords == 3
MaxTicks == 4

Epoch == 100000

\* the steps of the clock: sums of them give 10, 60, 61, 3600 and 3601
Advances == {1, 9, 51, 3540}

\* RateLimitConfig: the defaults with requests_per_minute 10 and 3, limits
\* of 2 with a burst limit out of reach, and a burst limit of 2
LimiterConfigs ==
  { [requests_per_minute |-> 10, requests_per_hour |-> 100,
     burst_limit |-> 3, cooldown_period |-> 300],
    [requests_per_minute |-> 3, requests_per_hour |-> 100,
     burst_limit |-> 3, cooldown_period |-> 300],
    [requests_per_minute |-> 2, requests_per_hour |-> 2,
     burst_limit |-> 5, cooldown_period |-> 60],
    [requests_per_minute |-> 5, requests_per_hour |-> 100,
     burst_limit |-> 2, cooldown_period |-> 0] }

\* RateLimiter.__init__
RateLimiterInit(cfg) ==
  /\ requests_per_minute = cfg.requests_per_minute
  /\ requests_per_hour = cfg.requests_per_hour
  /\ burst_limit = cfg.burst_limit
  /\ cooldown_period = cfg.cooldown_period
  /\ request_times = <<>>
  /\ hourly_requests = <<>>
  /\ consecutive_requests = 0
  /\ last_request_time = 0
  /\ cooldown_until = NoTime

LimiterInit ==
  /\ BreakerUnused
  /\ PrepareIdle
  /\ NoConcurrentCallers
  /\ WallClockUnadjusted
  /\ RetryUnused
  /\ BackoffUnused
  /\ ThrottlerUnused
  /\ ManagerUnused
  /\ \E cfg \in LimiterConfigs : RateLimiterInit(cfg)
  /\ clock = Epoch
  /\ ticks = 0
  /\ recorded = <<>>
  /\ cooldown_set_at = NoTime
  /\ op = "none"
  /\ allowed = FALSE

MinuteWindow == 60
HourWindow == 3600
ConsecutiveGap == 10

\* mutation: entries are never removed from the windows
KeepOldEntries(q, t, w) == q

\* one loop of _clean_old_entries: popleft while `now - q[0] > w`
RECURSIVE CleanOldEntries(_, _, _)
CleanOldEntries(q, t, w) ==
  IF q # <<>> /\ t - Head(q) > w THEN CleanOldEntries(Tail(q), t, w) ELSE q

\* mutation: the cooldown deadline is not consulted
CooldownIgnored(t) == FALSE

\* `if self.cooldown_until and now < self.cooldown_until:`
InCooldown(t) == cooldown_until # NoTime /\ t < cooldown_until

\* mutation: the limit may be exceeded by one
LimitExceeded(n, limit) == n > limit

\* `if len(...) >= self.config.requests_per_...:`
LimitReached(n, limit) == n >= limit

\* mutation: the burst check counts the calls of the trailing minute
BurstOfTrailingMinute(t) ==
  /\ Len(recorded) >= burst_limit
  /\ recorded[Len(recorded) - burst_limit + 1] >= t - MinuteWindow

\* the burst check (rate_limiter.py 62-66)
BurstDenies(t) ==
  /\ consecutive_requests >= burst_limit
  /\ t - last_request_time < MinuteWindow

\* mutant of can_make_request: the burst check never clears
can_make_request_burst_latched(t) ==
  /\ ~InCooldown(t)
  /\ ~LimitReached(Len(CleanOldEntries(request_times, t, MinuteWindow)),
                   requests_per_minute)
  /\ ~LimitReached(Len(CleanOldEntries(hourly_requests, t, HourWindow)),
                   requests_per_hour)
  /\ consecutive_requests < burst_limit

\* the value can_make_request returns at time t
can_make_request(t) ==
  /\ ~InCooldown(t)
  /\ ~LimitReached(Len(CleanOldEntries(request_times, t, MinuteWindow)),
                   requests_per_minute)
  /\ ~LimitReached(Len(CleanOldEntries(hourly_requests, t, HourWindow)),
                   requests_per_hour)
  /\ ~BurstDenies(t)

\* RateLimiter.can_make_request: its effect on the limiter
CanMakeRequestEffect ==
  /\ allowed' = can_make_request(clock)
  /\ IF InCooldown(clock)
       THEN UNCHANGED <<request_times, hourly_requests>>
       ELSE /\ request_times' =
                 CleanOldEntries(request_times, clock, MinuteWindow)
            /\ hourly_requests' =
                 CleanOldEntries(hourly_requests, clock, HourWindow)
  /\ op' = "allow"
  /\ UNCHANGED <<requests_per_minute, requests_per_hour, burst_limit,
                 cooldown_period, consecutive_requests, last_request_time,
                 cooldown_until, clock, ticks, recorded, cooldown_set_at>>

\* RateLimiter.record_request: its effect on the limiter
RecordRequestEffect ==
  /\ request_times' = Append(request_times, clock)
  /\ hourly_requests' = Append(hourly_requests, clock)
  /\ consecutive_requests' =
       IF clock - last_request_time < ConsecutiveGap
         THEN consecutive_requests + 1
         ELSE 1
  /\ last_request_time' = clock
  /\ recorded' = Append(recorded, clock)

\* RateLimiter.trigger_cooldown(duration); 0 stands for None as well:
\* `duration or self.config.cooldown_period`
trigger_cooldown(duration) ==
  /\ cooldown_until' =
       clock + (IF duration # 0 THEN duration ELSE cooldown_period)
  /\ cooldown_set_at' = clock

\* a caller of the limiter calls can_make_request
CanMakeRequest ==
  /\ CanMakeRequestEffect
  /\ reported' = NoReport
  /\ UNCHANGED <<session_duration, session_start, requests_in_session,
                 max_requests_per_session, stats>>
  /\ prepared' = NoPrepared
  /\ UNCHANGED <<th_last_request_time, rotate, prepares>>
  /\ UNCHANGED <<cbvars, rtvars, ccvars, wcvars, bovars, thvars>>

\* a caller of the limiter calls record_request
RecordRequest ==
  /\ Len(recorded) < MaxRecords
  /\ RecordRequestEffect
  /\ op' = "none"
  /\ allowed' = FALSE
  /\ UNCHANGED <<requests_per_minute, requests_per_hour, burst_limit,
                 cooldown_period, cooldown_until, clock, ticks,
                 cooldown_set_at>>
  /\ UNCHANGED <<wcvars, cbvars, rtvars, prvars, ccvars, bovars, thvars,
                 mgvars>>

\* time passes
Advance(d) ==
  /\ ticks < MaxTicks
  /\ clock' = clock + d
  /\ ticks' = ticks + 1
  /\ op' = "none"
  /\ allowed' = FALSE
  /\ UNCHANGED <<requests_per_minute, requests_per_hour, burst_limit,
                 cooldown_period, request_times, hourly_requests,
                 consecutive_requests, last_request_time, cooldown_until,
                 recorded, cooldown_set_at>>
  /\ reported' = NoReport
  /\ UNCHANGED <<session_duration, session_start, requests_in_session,
                 max_requests_per_session, stats>>
  /\ prepared' = NoPrepared
  /\ UNCHANGED <<th_last_request_time, rotate, prepares>>
  /\ UNCHANGED <<cbvars, rtvars, ccvars, wcvars, bovars, thvars>>

NextLimiter ==
  \/ CanMakeRequest
  \/ RecordRequest
  \/ \E d \in Advances : Advance(d)

SpecLimiter == LimiterInit /\ [][NextLimiter]_vars

\* the number of calls recorded in the trailing w seconds
RecordedWithin(w) ==
  Cardinality({i \in 1..Len(recorded) : recorded[i] >= clock - w})

\* C15: with no cooldown active, can_make_request returns True only if
\* fewer than requests_per_minute calls were recorded in the trailing 60
\* seconds and fewer than requests_per_hour in the trailing 3600 seconds;
\* it returns False whenever either count has reached its limit.
C15_AllowedOnlyBelowLimits ==
  (op = "allow" /\ ~InCooldown(clock))
    => /\ allowed => /\ RecordedWithin(MinuteWindow) < requests_per_minute
                     /\ RecordedWithin(HourWindow) < requests_per_hour
       /\ (\/ RecordedWithin(MinuteWindow) >= requests_per_minute
           \/ RecordedWithin(HourWindow) >= requests_per_hour) => ~allowed

\* denied by the hourly limit alone: two calls with requests_per_hour = 2,
\* asked 3600 seconds later
C15_Witness ==
  /\ op = "allow"
  /\ ~allowed
  /\ requests_per_hour = 2
  /\ recorded = <<Epoch, Epoch>>
  /\ clock = Epoch + 3600
  /\ RecordedWithin(MinuteWindow) = 0
  /\ RecordedWithin(HourWindow) = 2

\* the checks of can_make_request other than the burst check pass
OtherChecksPass ==
  /\ ~InCooldown(clock)
  /\ RecordedWithin(MinuteWindow) < requests_per_minute
  /\ RecordedWithin(HourWindow) < requests_per_hour

\* C16: when the other checks pass, can_make_request returns False exactly
\* when the last burst_limit recorded calls all occurred within the trailing
\* 60 seconds.
C16_BurstAsSpecified ==
  (op = "allow" /\ OtherChecksPass)
    => (allowed <=> ~BurstOfTrailingMinute(clock))

\* the length of the run of calls that ends h, each less than
\* ConsecutiveGap seconds after the one before
RECURSIVE RunLength(_)
RunLength(h) ==
  IF Len(h) <= 1 THEN Len(h)
  ELSE IF h[Len(h)] - h[Len(h) - 1] < ConsecutiveGap
    THEN 1 + RunLength(SubSeq(h, 1, Len(h) - 1))
    ELSE 1

\* C16, amended: when the other checks pass, can_make_request returns False
\* exactly when the run of recorded calls each made less than 10 seconds
\* after the previous one has reached burst_limit calls and the last
\* recorded call is less than 60 seconds old.
C16_BurstOfConsecutiveCalls ==
  (op = "allow" /\ OtherChecksPass)
    => (allowed <=> ~(/\ RunLength(recorded) >= burst_limit
                      /\ clock - recorded[Len(recorded)] < MinuteWindow))

\* denied by the burst check when the first of the last two calls is more
\* than 60 seconds old
C16_Witness ==
  /\ op = "allow"
  /\ OtherChecksPass
  /\ ~allowed
  /\ burst_limit = 2
  /\ recorded = <<Epoch, Epoch + 9>>
  /\ clock = Epoch + 61
  /\ ~BurstOfTrailingMinute(clock)

\* RateLimitConfig(requests_per_minute=3), the other fields at their
\* defaults
ThreePerMinute ==
  /\ requests_per_minute = 3
  /\ requests_per_hour = 100
  /\ burst_limit = 3

\* C18: with requests_per_minute = 3 and three calls recorded within 5
\* seconds, can_make_request returns False as long as the three calls are
\* in the trailing 60 seconds, and True once 61 seconds have passed since
\* the last of them with no further call recorded.
C18_DeniedThenAllowedAfterAMinute ==
  (/\ op = "allow"
   /\ ThreePerMinute
   /\ Len(recorded) = 3
   /\ recorded[3] - recorded[1] <= 5)
    => /\ clock - recorded[1] <= MinuteWindow => ~allowed
       /\ clock - recorded[3] >= MinuteWindow + 1 => allowed

\* the fourth query, 61 seconds after the last of three calls
C18_Witness ==
  /\ op = "allow"
  /\ ThreePerMinute
  /\ recorded = <<Epoch, Epoch + 1, Epoch + 1>>
  /\ clock = Epoch + 62
  /\ allowed

(***************************************************************************)
(* RateLimitingManager (rate_limiter.py 384-446) with its RateLimiter,     *)
(* its RequestThrottler() and its SessionManager(), used by one thread.    *)
(***************************************************************************)
MaxOutcomes == 2

DefaultSessionDuration == 1800

\* the draws of random.randint(50, 100) the model takes: both ends
SessionCeilings == {50, 100}

\* RateLimitingManager(config): the default configuration and one with a
\* cooldown of a minute
ManagerConfigs ==
  { [requests_per_minute |-> 10, requests_per_hour |-> 100,
     burst_limit |-> 3, cooldown_period |-> 300],
    [requests_per_minute |-> 2, requests_per_hour |-> 2,
     burst_limit |-> 5, cooldown_period |-> 60] }

\* the steps of the clock under the manager: 9, 51 and 60 seconds
ManagerAdvances == {9, 51}

\* SessionManager.__init__
SessionManagerInit ==
  /\ session_duration = DefaultSessionDuration
  /\ session_start = NoTime
  /\ requests_in_session = 0
  /\ max_requests_per_session \in SessionCeilings

ManagerInit ==
  /\ BreakerUnused
  /\ PrepareIdle
  /\ NoConcurrentCallers
  /\ WallClockUnadjusted
  /\ RetryUnused
  /\ BackoffUnused
  /\ \E cfg \in ManagerConfigs : RateLimiterInit(cfg)
  /\ RequestThrottlerInit([base_delay |-> Second, max_delay |-> 30 * Second])
  /\ th_calls = 0
  /\ th_history = <<>>
  /\ SessionManagerInit
  /\ stats = NoStats
  /\ reported = NoReport
  /\ clock = Epoch
  /\ ticks = 0
  /\ recorded = <<>>
  /\ cooldown_set_at = NoTime
  /\ op = "none"
  /\ allowed = FALSE

\* mutant of session_record_request: the call that starts the session is
\* not counted
session_record_request_after_start ==
  /\ IF session_start = NoTime
       THEN /\ session_start' = clock
            /\ max_requests_per_session' \in SessionCeilings
            /\ requests_in_session' = 0
       ELSE /\ requests_in_session' = requests_in_session + 1
            /\ UNCHANGED <<session_start, max_requests_per_session>>
  /\ UNCHANGED session_duration

\* SessionManager.record_request, with start_new_session when no session
\* has started
session_record_request ==
  /\ IF session_start = NoTime
       THEN /\ session_start' = clock
            /\ max_requests_per_session' \in SessionCeilings
            /\ requests_in_session' = 1
       ELSE /\ requests_in_session' = requests_in_session + 1
            /\ UNCHANGED <<session_start, max_requests_per_session>>
  /\ UNCHANGED session_duration

\* RateLimitingManager.record_request_result(success, detected)
RecordRequestResult(success, detected) ==
  /\ Len(recorded) < MaxOutcomes
  /\ RecordRequestEffect
  /\ session_record_request
  /\ after_request(success)
  /\ th_calls' = th_calls + 1
  /\ th_history' = Append(th_history, success)
  /\ IF detected
       THEN /\ trigger_cooldown(0)
            /\ stats' = [stats EXCEPT !.requests_made = @ + 1,
                                      !.cooldowns_triggered = @ + 1]
            /\ op' = "detected"
       ELSE /\ UNCHANGED <<cooldown_until, cooldown_set_at>>
            /\ stats' = [stats EXCEPT !.requests_made = @ + 1]
            /\ op' = "none"
  /\ allowed' = FALSE
  /\ reported' = NoReport
  /\ UNCHANGED <<requests_per_minute, requests_per_hour, burst_limit,
                 cooldown_period, clock, ticks>>
  /\ prepared' = NoPrepared
  /\ UNCHANGED <<th_last_request_time, rotate, prepares>>
  /\ UNCHANGED <<cbvars, rtvars, ccvars, wcvars, bovars>>

\* RateLimitingManager.get_stats
GetStats ==
  /\ reported' = [in_cooldown |-> InCooldown(clock),
                  cooldowns_triggered |-> stats.cooldowns_triggered]
  /\ op' = "stats"
  /\ allowed' = FALSE
  /\ UNCHANGED <<requests_per_minute, requests_per_hour, burst_limit,
                 cooldown_period, request_times, hourly_requests,
                 consecutive_requests, last_request_time, cooldown_until,
                 clock, ticks, recorded, cooldown_set_at>>
  /\ UNCHANGED <<session_duration, session_start, requests_in_session,
                 max_requests_per_session, stats>>
  /\ prepared' = NoPrepared
  /\ UNCHANGED <<th_last_request_time, rotate, prepares>>
  /\ UNCHANGED <<cbvars, rtvars, ccvars, wcvars, bovars, thvars>>

NextManager ==
  \/ \E success, detected \in BOOLEAN : RecordRequestResult(success, detected)
  \/ CanMakeRequest
  \/ GetStats
  \/ \E d \in ManagerAdvances : Advance(d)

SpecManager == ManagerInit /\ [][NextManager]_vars

\* the deadline of the cooldown the last detection started
CooldownDeadline == cooldown_set_at + cooldown_period

\* C17: a record_request_result call with detected = True adds one to
\* cooldowns_triggered and sets the cooldown deadline cooldown_period
\* seconds ahead; at every instant before that deadline can_make_request
\* returns False and get_stats reports in_cooldown True, and from the
\* deadline on get_stats reports in_cooldown False.
C17_CooldownAfterDetection ==
  /\ [][op' = "detected"
          => /\ stats'.cooldowns_triggered = stats.cooldowns_triggered + 1
             /\ cooldown_set_at' = clock'
             /\ cooldown_until' = clock' + cooldown_period]_vars
  /\ [](cooldown_set_at # NoTime
          => /\ (op = "allow" /\ clock < CooldownDeadline) => ~allowed
             /\ op = "stats"
                  => (reported.in_cooldown <=> clock < CooldownDeadline))

\* nine seconds into a cooldown of a minute, with one call recorded, the
\* limits not reached and the query denied
C17_Witness ==
  /\ op = "allow"
  /\ ~allowed
  /\ cooldown_period = 60
  /\ cooldown_set_at = Epoch
  /\ clock = Epoch + 9
  /\ Len(recorded) = 1
  /\ stats.cooldowns_triggered = 1
  /\ RecordedWithin(MinuteWindow) < requests_per_minute
  /\ RecordedWithin(HourWindow) < requests_per_hour
  /\ ~BurstDenies(clock)

\* ---------------------------------------------------------------------
\* SessionManager on its own: one caller, one call at a time
\* ---------------------------------------------------------------------

MaxSessionRequests == 51
SessionAdvances == {900, 901}

\* mutant of SessionExpired: rotation already at the session duration
SessionExpiredAtDuration(session_age) == session_age >= session_duration

\* `session_age > self.session_duration`
SessionExpired(session_age) == session_age > session_duration

\* SessionManager.should_rotate_session at time t
should_rotate_session(t) ==
  IF session_start = NoTime
    THEN FALSE
    ELSE \/ SessionExpired(t - session_start)
         \/ requests_in_session >= max_requests_per_session

\* mutant of start_new_session: the request counter survives the restart
start_new_session_keeping_count ==
  /\ session_start' = clock
  /\ max_requests_per_session' \in SessionCeilings
  /\ UNCHANGED requests_in_session

\* SessionManager.start_new_session
start_new_session ==
  /\ session_start' = clock
  /\ requests_in_session' = 0
  /\ max_requests_per_session' \in SessionCeilings

\* what a call on the session manager leaves alone
SessionCallFrame ==
  /\ allowed' = FALSE
  /\ reported' = NoReport
  /\ UNCHANGED <<session_duration, stats>>
  /\ UNCHANGED <<requests_per_minute, requests_per_hour, burst_limit,
                 cooldown_period, request_times, hourly_requests,
                 consecutive_requests, last_request_time, cooldown_until,
                 clock, ticks, recorded, cooldown_set_at>>
  /\ prepared' = NoPrepared
  /\ UNCHANGED <<th_last_request_time, prepares>>
  /\ UNCHANGED <<cbvars, rtvars, bovars, thvars, ccvars, wcvars>>

\* a caller calls should_rotate_session
ShouldRotateSession ==
  /\ rotate' = should_rotate_session(clock)
  /\ op' = "rotate"
  /\ UNCHANGED <<session_start, requests_in_session,
                 max_requests_per_session>>
  /\ SessionCallFrame

\* a caller calls start_new_session
StartNewSession ==
  /\ start_new_session
  /\ op' = "start_new"
  /\ rotate' = FALSE
  /\ SessionCallFrame

\* a caller calls SessionManager.record_request
SessionRecordRequest ==
  /\ requests_in_session < MaxSessionRequests
  /\ session_record_request
  /\ op' = "session_record"
  /\ rotate' = FALSE
  /\ allowed' = FALSE
  /\ reported' = NoReport
  /\ UNCHANGED stats
  /\ UNCHANGED <<requests_per_minute, requests_per_hour, burst_limit,
                 cooldown_period, request_times, hourly_requests,
                 consecutive_requests, last_request_time, cooldown_until,
                 clock, ticks, recorded, cooldown_set_at>>
  /\ prepared' = NoPrepared
  /\ UNCHANGED <<th_last_request_time, prepares>>
  /\ UNCHANGED <<cbvars, rtvars, bovars, thvars, ccvars, wcvars>>

NextSession ==
  \/ ShouldRotateSession
  \/ StartNewSession
  \/ SessionRecordRequest
  \/ \E d \in SessionAdvances : Advance(d)

SpecSession == ManagerInit /\ [][NextSession]_vars

\* C22: should_rotate_session returns True exactly when a session has
\* started and either its age exceeds session_duration or its request
\* count has reached max_requests_per_session; with no session started it
\* returns False.
C22_RotateExactlyWhenDue ==
  op = "rotate"
    => (rotate <=> /\ session_start # NoTime
                   /\ \/ clock - session_start > session_duration
                      \/ requests_in_session >= max_requests_per_session)

\* a session exactly session_duration old whose request count has just
\* reached the ceiling: the query answers True
C22_Witness ==
  /\ op = "rotate"
  /\ rotate
  /\ session_start = Epoch
  /\ clock = Epoch + DefaultSessionDuration
  /\ max_requests_per_session = 50
  /\ requests_in_session = 50

\* C23: start_new_session sets the start time to now, resets the request
\* counter to 0 and redraws the ceiling; the ceiling lies in 50..100 in
\* every reachable state; record_request adds exactly one to the counter,
\* after starting a session when none is active, so that after it a
\* session is active with a count of at least one.
C23_SessionBookkeeping ==
  /\ [](max_requests_per_session \in 50..100)
  /\ [][op' = "start_new"
          => /\ session_start' = clock'
             /\ requests_in_session' = 0
             /\ max_requests_per_session' \in 50..100]_vars
  /\ [][op' = "session_record"
          => /\ session_start' # NoTime
             /\ requests_in_session' >= 1
             /\ IF session_start = NoTime
                  THEN /\ session_start' = clock'
                       /\ requests_in_session' = 1
                  ELSE /\ session_start' = session_start
                       /\ requests_in_session' = requests_in_session + 1
                       /\ UNCHANGED max_requests_per_session]_vars

\* a session started by the first record_request, 900 s after
\* construction, holding three requests 901 s later
C23_Witness ==
  /\ op = "session_record"
  /\ session_start = Epoch + 900
  /\ clock = Epoch + 1801
  /\ requests_in_session = 3

\* ---------------------------------------------------------------------
\* RateLimitingManager.prepare_request: one caller, one call at a time
\* ---------------------------------------------------------------------

MaxPrepares == 2

\* RateLimitingManager(config) with two requests a minute and an hour and
\* a cooldown of a minute
PrepareConfigs ==
  { [requests_per_minute |-> 2, requests_per_hour |-> 2,
     burst_limit |-> 5, cooldown_period |-> 60] }

\* RateLimitingManager.__init__ with a configuration out of configs
ManagerInitWith(configs) ==
  /\ BreakerUnused
  /\ PrepareIdle
  /\ NoConcurrentCallers
  /\ WallClockUnadjusted
  /\ RetryUnused
  /\ BackoffUnused
  /\ \E cfg \in configs : RateLimiterInit(cfg)
  /\ RequestThrottlerInit([base_delay |-> Second, max_delay |-> 30 * Second])
  /\ th_calls = 0
  /\ th_history = <<>>
  /\ SessionManagerInit
  /\ stats = NoStats
  /\ reported = NoReport
  /\ clock = Epoch
  /\ ticks = 0
  /\ recorded = <<>>
  /\ cooldown_set_at = NoTime
  /\ op = "none"
  /\ allowed = FALSE
MaxPrepareTicks == 1
PrepareAdvances == {1801}

\* random.uniform(*jitter_range) with jitter_range (0.5, 2.0): the draws
\* 0.5 and 2.0, in halves
JitterHalves == {1, 4}

\* time.sleep(wait_time * jitter) lasts the next whole number of seconds
SleepSeconds(wait_time, j) == (wait_time * j + 1) \div 2

\* a throttler delay (microseconds) in whole seconds, rounded up
CeilSeconds(d) == (d + Second - 1) \div Second

\* RateLimiter._calculate_wait_time: the list wait_times, rt being the
\* deque request_times (not empty when the per-minute limit is reached)
WaitTimes(t, rt) ==
  (IF InCooldown(t) THEN {cooldown_until - t} ELSE {})
    \cup (IF LimitReached(Len(rt), requests_per_minute)
            THEN {MinuteWindow - (t - Head(rt))}
            ELSE {})
    \cup (IF BurstDenies(t)
            THEN {MinuteWindow - (t - last_request_time)}
            ELSE {})

\* mutant of calculate_wait_time: the shortest of the wait times
shortest_wait_time(t, rt) ==
  LET wait_times == WaitTimes(t, rt)
  IN  IF wait_times = {}
        THEN 0
        ELSE CHOOSE w \in wait_times : \A v \in wait_times : w <= v

\* RateLimiter._calculate_wait_time(now)
calculate_wait_time(t, rt) ==
  LET wait_times == WaitTimes(t, rt)
  IN  IF wait_times = {}
        THEN 0
        ELSE CHOOSE w \in wait_times : \A v \in wait_times : v <= w

\* mutant of Admits: a manager that has not waited yet is always admitted
AdmitsBeforeFirstWait(st, t) ==
  can_make_request(t) \/ st.rate_limit_waits = 0

\* the admission test of wait_if_needed in a manager whose counters are
\* st: `if self.can_make_request()`
Admits(st, t) == can_make_request(t)

\* RateLimitingManager.prepare_request in a manager whose counters are st,
\* the jitter draw being j/2: what it returns, how long it sleeps and what
\* it leaves in the limiter, the throttler and the counters
prepare_request(st, j) ==
  LET admit == Admits(st, clock)
      rt == IF InCooldown(clock)
              THEN request_times
              ELSE CleanOldEntries(request_times, clock, MinuteWindow)
      hr == IF InCooldown(clock)
              THEN hourly_requests
              ELSE CleanOldEntries(hourly_requests, clock, HourWindow)
      \* request_times[0] on an empty deque
      fails == /\ ~admit
               /\ LimitReached(Len(rt), requests_per_minute)
               /\ rt = <<>>
      wait_time == IF admit \/ fails THEN 0 ELSE calculate_wait_time(clock, rt)
      actual_wait == IF wait_time > 0 THEN SleepSeconds(wait_time, j) ELSE 0
      t1 == clock + actual_wait
      elapsed == t1 - th_last_request_time
      sleep_time == IF elapsed < CeilSeconds(current_delay)
                      THEN CeilSeconds(current_delay) - elapsed
                      ELSE 0
      t2 == t1 + sleep_time
      rot == should_rotate_session(t2)
  IN  IF fails
        THEN [error |-> "IndexError", denied |-> TRUE, limiter_wait |-> 0,
              throttle_sleep |-> 0, rotate_session |-> FALSE,
              now |-> clock, last_request_time |-> th_last_request_time,
              request_times |-> rt, hourly_requests |-> hr, stats |-> st]
        ELSE [error |-> "None", denied |-> ~admit,
              limiter_wait |-> actual_wait, throttle_sleep |-> sleep_time,
              rotate_session |-> rot,
              now |-> t2, last_request_time |-> t2,
              request_times |-> rt, hourly_requests |-> hr,
              stats |-> [st EXCEPT
                           !.rate_limit_waits =
                              IF actual_wait > 0 THEN @ + 1 ELSE @,
                           !.sessions_rotated =
                              IF rot THEN @ + 1 ELSE @]]

\* mutant of SessionOnRotation: prepare_request itself starts the new
\* session
RestartOnRotation(rot) ==
  /\ IF rot
       THEN start_new_session
       ELSE UNCHANGED <<session_start, requests_in_session,
                        max_requests_per_session>>
  /\ UNCHANGED session_duration

\* prepare_request returns {'rotate_session': True} without a call that
\* writes the session manager
SessionOnRotation(rot) ==
  UNCHANGED <<session_start, requests_in_session, max_requests_per_session,
              session_duration>>

\* a caller calls prepare_request
PrepareRequest(j) ==
  /\ prepares < MaxPrepares
  /\ LET r == prepare_request(stats, j)
     IN  /\ prepared' = [rotate_session |-> r.rotate_session,
                         limiter_wait |-> r.limiter_wait,
                         throttle_sleep |-> r.throttle_sleep,
                         error |-> r.error, denied |-> r.denied]
         /\ clock' = r.now
         /\ th_last_request_time' = r.last_request_time
         /\ request_times' = r.request_times
         /\ hourly_requests' = r.hourly_requests
         /\ stats' = r.stats
         /\ SessionOnRotation(r.rotate_session)
  /\ prepares' = prepares + 1
  /\ op' = "prepare"
  /\ allowed' = FALSE
  /\ rotate' = FALSE
  /\ reported' = NoReport
  /\ UNCHANGED <<requests_per_minute, requests_per_hour, burst_limit,
                 cooldown_period, consecutive_requests, last_request_time,
                 cooldown_until, ticks, recorded, cooldown_set_at>>
  /\ UNCHANGED <<cbvars, rtvars, bovars, thvars, ccvars, wcvars>>

\* the caller reports a detected request as a failure and any other as a
\* success
NextPrepare ==
  \/ \E j \in JitterHalves : PrepareRequest(j)
  \/ \E detected \in BOOLEAN : RecordRequestResult(~detected, detected)
  \/ should_rotate_session(clock) /\ StartNewSession
  \/ GetStats
  \/ \E d \in PrepareAdvances : ticks < MaxPrepareTicks /\ Advance(d)

SpecPrepare == ManagerInitWith(PrepareConfigs) /\ [][NextPrepare]_vars

\* C24: in every prepare_request call in which the limiter denies
\* admission (cooldown, per-minute limit, per-hour limit or burst) the
\* caller sleeps a positive time and rate_limit_waits grows by exactly
\* one; when the limiter admits there is no limiter sleep and the counter
\* is unchanged.
C24_DeniedSleepsAndCounts ==
  [][op' = "prepare"
       => IF can_make_request(clock)
            THEN /\ prepared'.limiter_wait = 0
                 /\ stats'.rate_limit_waits = stats.rate_limit_waits
            ELSE /\ prepared'.limiter_wait > 0
                 /\ stats'.rate_limit_waits = stats.rate_limit_waits + 1]_vars

\* a session is active and is too old or has used up its requests
RotationDue ==
  /\ session_start # NoTime
  /\ \/ clock - session_start > session_duration
     \/ requests_in_session >= max_requests_per_session

\* C25: prepare_request returns rotate_session = True exactly when the
\* session is due for rotation, and then leaves the session's start time,
\* request count and ceiling as they are; a session that is due stays due
\* until start_new_session is called, so every later prepare_request
\* returns True again; the prepare_request that follows start_new_session
\* returns False.
C25_RotateLeftToCaller ==
  /\ [](op = "prepare" => (prepared.rotate_session <=> RotationDue))
  /\ [][op' = "prepare" /\ prepared'.rotate_session
          => UNCHANGED <<session_start, requests_in_session,
                         max_requests_per_session>>]_vars
  /\ [][RotationDue /\ op' # "start_new" => RotationDue']_vars
  /\ [][op = "start_new" /\ op' = "prepare"
          => ~prepared'.rotate_session]_vars

\* a prepare_request asked for a rotation, the caller started a new
\* session, and the next prepare_request did not ask again
C25_Witness ==
  /\ op = "prepare"
  /\ ~prepared.rotate_session
  /\ prepares = 2
  /\ stats.sessions_rotated = 1
  /\ session_start >= Epoch + 1801
  /\ requests_in_session = 0

\* C26: one record_request_result call, whatever success and detected
\* are, appends one timestamp to both limiter windows, adds one to the
\* session request count, applies after_request(success) once and adds one
\* to requests_made; the cooldown and cooldowns_triggered change only when
\* detected is True.
C26_OutcomeAlwaysRecorded ==
  [][Len(recorded') = Len(recorded) + 1
       => /\ request_times' = Append(request_times, clock)
          /\ hourly_requests' = Append(hourly_requests, clock)
          /\ session_start' # NoTime
          /\ requests_in_session' = requests_in_session + 1
          /\ th_calls' = th_calls + 1
          /\ \E success \in BOOLEAN :
               th_history' = Append(th_history, success)
          /\ success_count' = Trailing(th_history', TRUE) % 5
          /\ th_failure_count' = Trailing(th_history', FALSE)
          /\ current_delay' = ReferenceDelay(th_history')
          /\ stats'.requests_made = stats.requests_made + 1
          /\ IF op' = "detected"
               THEN /\ cooldown_until' = clock + cooldown_period
                    /\ stats'.cooldowns_triggered =
                         stats.cooldowns_triggered + 1
               ELSE /\ UNCHANGED <<cooldown_until, cooldown_set_at>>
                    /\ stats'.cooldowns_triggered =
                         stats.cooldowns_triggered]_vars

\* a failure flagged as detected after a plain success, nine seconds apart
C26_Witness ==
  /\ op = "detected"
  /\ th_history = <<TRUE, FALSE>>
  /\ recorded = <<Epoch, Epoch + 9>>
  /\ request_times = recorded
  /\ hourly_requests = recorded
  /\ requests_in_session = 2
  /\ stats.requests_made = 2
  /\ stats.cooldowns_triggered = 1

\* counter values of a second manager: none moved, or all of them at 7
CounterValues ==
  { NoStats,
    [requests_made |-> 7, rate_limit_waits |-> 7,
     cooldowns_triggered |-> 7, sessions_rotated |-> 7] }

\* what prepare_request returns, how long it sleeps and the limiter and
\* throttler state it leaves: everything but the counters
Observable(r) == [f \in DOMAIN r \ {"stats"} |-> r[f]]

\* C29: the counters are observational only: in every reachable state a
\* manager with the same limiter, throttler and session state but other
\* counter values gets the same admission decision and the same
\* prepare_request result, sleeps and resulting state for the same jitter
\* draw and clock reading; get_stats changes no state of the manager.
C29_CountersObservational ==
  /\ [](/\ \A st \in CounterValues : Admits(st, clock) = Admits(stats, clock)
        /\ \A j \in JitterHalves :
             LET mine == Observable(prepare_request(stats, j))
             IN  \A st \in CounterValues :
                   Observable(prepare_request(st, j)) = mine)
  /\ [][op' = "stats"
          => UNCHANGED <<requests_per_minute, requests_per_hour, burst_limit,
                         cooldown_period, request_times, hourly_requests,
                         consecutive_requests, last_request_time,
                         cooldown_until, clock, session_duration,
                         session_start, requests_in_session,
                         max_requests_per_session, stats, thvars,
                         th_last_request_time>>]_vars

\* a second prepare_request in a row that the limiter denied and that
\* slept, all in the manager whose counters have moved
C29_Witness ==
  /\ op = "prepare"
  /\ prepared.denied
  /\ prepared.limiter_wait > 0
  /\ stats.rate_limit_waits = 2
  /\ stats.requests_made = 2

\* ---------------------------------------------------------------------
\* RateLimitingManager built from any RateLimitConfig
\* ---------------------------------------------------------------------

\* RateLimitConfig values a caller can pass: the default one and three
\* with one limit at 0
ConstructorInputs ==
  { [requests_per_minute |-> 10, requests_per_hour |-> 100,
     burst_limit |-> 3, cooldown_period |-> 300],
    [requests_per_minute |-> 0, requests_per_hour |-> 100,
     burst_limit |-> 3, cooldown_period |-> 300],
    [requests_per_minute |-> 10, requests_per_hour |-> 0,
     burst_limit |-> 3, cooldown_period |-> 300],
    [requests_per_minute |-> 10, requests_per_hour |-> 100,
     burst_limit |-> 0, cooldown_period |-> 300] }

SpecConstruct == ManagerInitWith(ConstructorInputs) /\ [][NextPrepare]_vars

\* C30: a manager that exists was built from a valid configuration
\* (positive limits, base delay not above the maximum delay), invalid ones
\* being rejected at construction; and no prepare_request call fails.
C30_InvalidConfigRejected ==
  /\ requests_per_minute > 0
  /\ requests_per_hour > 0
  /\ burst_limit > 0
  /\ th_base_delay <= th_max_delay
  /\ prepared.error = "None"

\* ---------------------------------------------------------------------
\* RateLimitingManager shared by concurrent callers: prepare_request and
\* record_request_result one statement at a time. The limiter methods run
\* under RateLimiter.lock; the throttler, the session manager and the
\* counters have no lock, so `x += 1` is a read and a later write.
\* ---------------------------------------------------------------------

MaxConcurrentCalls == 3

\* what no concurrent step changes
ConcFixed ==
  <<cbvars, rtvars, bovars, wcvars, requests_per_minute, requests_per_hour,
    burst_limit, cooldown_period, ticks, op, allowed, reported, rotate,
    prepared, prepares, session_duration, th_base_delay, th_max_delay>>

LimiterState ==
  <<request_times, hourly_requests, consecutive_requests, last_request_time,
    recorded, cooldown_until, cooldown_set_at>>

SessionState ==
  <<session_start, requests_in_session, max_requests_per_session>>

ThrottlerState ==
  <<current_delay, success_count, th_failure_count, th_calls, th_history,
    th_last_request_time>>

\* caller c moves on to the statement at, with tmp in its local
Goto(c, at, v) ==
  /\ cpc' = [cpc EXCEPT ![c] = at]
  /\ creg' = [creg EXCEPT ![c].tmp = v]

\* caller c goes to sleep until the time wake
SleepUntil(c, at, wake) ==
  /\ cpc' = [cpc EXCEPT ![c] = at]
  /\ creg' = [creg EXCEPT ![c].wake = wake]

\* an idle caller calls prepare_request or record_request_result; a
\* detected request is reported as a failure, any other as a success
ManagerCall(c) ==
  /\ cpc[c] = "idle"
  /\ conc_calls < MaxConcurrentCalls
  /\ conc_calls' = conc_calls + 1
  /\ \/ /\ cpc' = [cpc EXCEPT ![c] = "can_make_request"]
        /\ creg' = [creg EXCEPT ![c] = [NoRegisters EXCEPT !.call = "prepare"]]
        /\ UNCHANGED started
     \/ \E detected \in BOOLEAN :
          /\ cpc' = [cpc EXCEPT ![c] = "record_request"]
          /\ creg' = [creg EXCEPT ![c] =
                        [NoRegisters EXCEPT !.call = "record",
                                            !.success = ~detected,
                                            !.detected = detected]]
          /\ started' = Append(started, ~detected)
  /\ UNCHANGED <<LimiterState, SessionState, ThrottlerState, stats, clock,
                 lock, returns, ConcFixed>>

\* caller c runs the next statement of prepare_request
PrepareStep(c) ==
  \* wait_if_needed: `if self.can_make_request()`, under the lock
  \/ /\ cpc[c] = "can_make_request"
     /\ lock = 0
     /\ IF InCooldown(clock)
          THEN UNCHANGED <<request_times, hourly_requests>>
          ELSE /\ request_times' =
                    CleanOldEntries(request_times, clock, MinuteWindow)
               /\ hourly_requests' =
                    CleanOldEntries(hourly_requests, clock, HourWindow)
     /\ Goto(c, IF can_make_request(clock) THEN "before_request"
                                           ELSE "with_lock", 0)
     /\ UNCHANGED <<consecutive_requests, last_request_time, recorded,
                    cooldown_until, cooldown_set_at, SessionState,
                    ThrottlerState, stats, clock, lock, conc_calls, returns,
                    started, ConcFixed>>
  \* wait_if_needed: `with self.lock:` up to time.sleep(actual_wait), which
  \* is called with the lock held
  \/ /\ cpc[c] = "with_lock"
     /\ lock = 0
     /\ LET wait_time == calculate_wait_time(clock, request_times)
        IN  IF wait_time > 0
              THEN \E j \in JitterHalves :
                     /\ lock' = c
                     /\ SleepUntil(c, "limiter_sleep",
                                   clock + SleepSeconds(wait_time, j))
              ELSE /\ UNCHANGED lock
                   /\ Goto(c, "before_request", 0)
     /\ UNCHANGED <<LimiterState, SessionState, ThrottlerState, stats, clock,
                    conc_calls, returns, started, ConcFixed>>
  \* time.sleep returns, the `with` block ends; back in prepare_request,
  \* `self.stats['rate_limit_waits'] += 1` reads the counter
  \/ /\ cpc[c] = "limiter_sleep"
     /\ clock >= creg[c].wake
     /\ lock' = 0
     /\ Goto(c, "rate_limit_waits", stats.rate_limit_waits)
     /\ UNCHANGED <<LimiterState, SessionState, ThrottlerState, stats, clock,
                    conc_calls, returns, started, ConcFixed>>
  \* ... and writes it
  \/ /\ cpc[c] = "rate_limit_waits"
     /\ stats' = [stats EXCEPT !.rate_limit_waits = creg[c].tmp + 1]
     /\ Goto(c, "before_request", 0)
     /\ UNCHANGED <<LimiterState, SessionState, ThrottlerState, clock, lock,
                    conc_calls, returns, started, ConcFixed>>
  \* before_request: reads last_request_time and current_delay and sleeps
  \* the remainder if any
  \/ /\ cpc[c] = "before_request"
     /\ LET elapsed == clock - th_last_request_time
        IN  IF elapsed < CeilSeconds(current_delay)
              THEN /\ cpc' = [cpc EXCEPT ![c] = "throttle_sleep"]
                   /\ creg' = [creg EXCEPT
                                 ![c].tmp = current_delay,
                                 ![c].wake = clock + CeilSeconds(current_delay)
                                               - elapsed]
              ELSE Goto(c, "last_request_time", current_delay)
     /\ UNCHANGED <<LimiterState, SessionState, ThrottlerState, stats, clock,
                    lock, conc_calls, returns, started, ConcFixed>>
  \* time.sleep(sleep_time) returns
  \/ /\ cpc[c] = "throttle_sleep"
     /\ clock >= creg[c].wake
     /\ Goto(c, "last_request_time", creg[c].tmp)
     /\ UNCHANGED <<LimiterState, SessionState, ThrottlerState, stats, clock,
                    lock, conc_calls, returns, started, ConcFixed>>
  \* before_request: `self.last_request_time = time.time()` and return
  \/ /\ cpc[c] = "last_request_time"
     /\ th_last_request_time' = clock
     /\ returns' = Append(returns, [at |-> clock, delay |-> creg[c].tmp])
     /\ Goto(c, "should_rotate_session", 0)
     /\ UNCHANGED <<LimiterState, SessionState, current_delay, success_count,
                    th_failure_count, th_calls, th_history, stats, clock,
                    lock, conc_calls, started, ConcFixed>>
  \* should_rotate_session, `self.stats['sessions_rotated'] += 1`, return
  \/ /\ cpc[c] = "should_rotate_session"
     /\ stats' = IF should_rotate_session(clock)
                   THEN [stats EXCEPT !.sessions_rotated = @ + 1]
                   ELSE stats
     /\ cpc' = [cpc EXCEPT ![c] = "idle"]
     /\ creg' = [creg EXCEPT ![c] = NoRegisters]
     /\ UNCHANGED <<LimiterState, SessionState, ThrottlerState, clock, lock,
                    conc_calls, returns, started, ConcFixed>>

\* caller c runs the next statement of record_request_result
RecordStep(c) ==
  \* rate_limiter.record_request(), under the lock
  \/ /\ cpc[c] = "record_request"
     /\ lock = 0
     /\ RecordRequestEffect
     /\ Goto(c, "session_start", 0)
     /\ UNCHANGED <<cooldown_until, cooldown_set_at, SessionState,
                    ThrottlerState, stats, clock, lock, conc_calls, returns,
                    started, ConcFixed>>
  \* session_manager.record_request: `if not self.session_start`
  \/ /\ cpc[c] = "session_start"
     /\ Goto(c, IF session_start = NoTime THEN "start_new_session"
                                          ELSE "requests_in_session", 0)
     /\ UNCHANGED <<LimiterState, SessionState, ThrottlerState, stats, clock,
                    lock, conc_calls, returns, started, ConcFixed>>
  \* self.start_new_session()
  \/ /\ cpc[c] = "start_new_session"
     /\ start_new_session
     /\ Goto(c, "requests_in_session", 0)
     /\ UNCHANGED <<LimiterState, ThrottlerState, stats, clock, lock,
                    conc_calls, returns, started, ConcFixed>>
  \* `self.requests_in_session += 1`: the read
  \/ /\ cpc[c] = "requests_in_session"
     /\ Goto(c, "requests_in_session_write", requests_in_session)
     /\ UNCHANGED <<LimiterState, SessionState, ThrottlerState, stats, clock,
                    lock, conc_calls, returns, started, ConcFixed>>
  \* ... and the write
  \/ /\ cpc[c] = "requests_in_session_write"
     /\ requests_in_session' = creg[c].tmp + 1
     /\ Goto(c, "after_request", 0)
     /\ UNCHANGED <<LimiterState, session_start, max_requests_per_session,
                    ThrottlerState, stats, clock, lock, conc_calls, returns,
                    started, ConcFixed>>
  \* throttler.after_request(success): the read of the streak counter
  \/ /\ cpc[c] = "after_request"
     /\ Goto(c, "after_request_write",
             IF creg[c].success THEN success_count ELSE th_failure_count)
     /\ UNCHANGED <<LimiterState, SessionState, ThrottlerState, stats, clock,
                    lock, conc_calls, returns, started, ConcFixed>>
  \* ... its write and the rest of after_request
  \/ /\ cpc[c] = "after_request_write"
     /\ IF creg[c].success
          THEN /\ th_failure_count' = 0
               /\ IF creg[c].tmp + 1 >= DecayStreak
                    THEN /\ current_delay' = Decayed(current_delay)
                         /\ success_count' = 0
                    ELSE /\ success_count' = creg[c].tmp + 1
                         /\ UNCHANGED current_delay
          ELSE /\ th_failure_count' = creg[c].tmp + 1
               /\ success_count' = 0
               /\ current_delay' = Grown(current_delay, creg[c].tmp + 1)
     /\ th_calls' = th_calls + 1
     /\ th_history' = Append(th_history, creg[c].success)
     /\ Goto(c, "requests_made", stats.requests_made)
     /\ UNCHANGED <<LimiterState, SessionState, th_last_request_time, stats,
                    clock, lock, conc_calls, returns, started, ConcFixed>>
  \* `self.stats['requests_made'] += 1`: the write, the read being the
  \* statement before
  \/ /\ cpc[c] = "requests_made"
     /\ stats' = [stats EXCEPT !.requests_made = creg[c].tmp + 1]
     /\ IF creg[c].detected
          THEN Goto(c, "trigger_cooldown", 0)
          ELSE /\ cpc' = [cpc EXCEPT ![c] = "idle"]
               /\ creg' = [creg EXCEPT ![c] = NoRegisters]
     /\ UNCHANGED <<LimiterState, SessionState, ThrottlerState, clock, lock,
                    conc_calls, returns, started, ConcFixed>>
  \* rate_limiter.trigger_cooldown(), under the lock, and
  \* `self.stats['cooldowns_triggered'] += 1`
  \/ /\ cpc[c] = "trigger_cooldown"
     /\ lock = 0
     /\ trigger_cooldown(0)
     /\ stats' = [stats EXCEPT !.cooldowns_triggered = @ + 1]
     /\ cpc' = [cpc EXCEPT ![c] = "idle"]
     /\ creg' = [creg EXCEPT ![c] = NoRegisters]
     /\ UNCHANGED <<request_times, hourly_requests, consecutive_requests,
                    last_request_time, recorded, SessionState, ThrottlerState,
                    clock, lock, conc_calls, returns, started, ConcFixed>>

\* time passes until the next sleeper is due
Elapse ==
  /\ \E c \in Callers :
       /\ cpc[c] \in {"limiter_sleep", "throttle_sleep"}
       /\ creg[c].wake > clock
       /\ \A d \in Callers :
            (cpc[d] \in {"limiter_sleep", "throttle_sleep"}
               /\ creg[d].wake > clock) => creg[c].wake <= creg[d].wake
       /\ clock' = creg[c].wake
  /\ UNCHANGED <<LimiterState, SessionState, ThrottlerState, stats, lock, cpc,
                 creg, conc_calls, returns, started, ConcFixed>>

NextConcurrent ==
  \/ \E c \in Callers : ManagerCall(c)
  \/ \E c \in Callers : PrepareStep(c)
  \/ \E c \in Callers : RecordStep(c)
  \/ Elapse

SpecConcurrent == ManagerInitWith(PrepareConfigs) /\ [][NextConcurrent]_vars

\* C21: any two returns from before_request, to whichever callers, are at
\* least the current_delay apart that was in force at the later call.
C21_SpacingForAllCallers ==
  \A i, k \in DOMAIN returns :
    i < k => returns[k].at - returns[i].at >= CeilSeconds(returns[k].delay)

\* C27: while a caller of prepare_request sleeps because the limiter
\* denied admission, the limiter lock is free.
C27_NoLockAcrossSleep ==
  \A c \in Callers : cpc[c] = "limiter_sleep" => lock = 0

\* the orders in which the outcomes h can be applied one after the other
Orders(h) ==
  { [i \in DOMAIN h |-> h[p[i]]] :
      p \in { q \in [DOMAIN h -> DOMAIN h] :
                \A i, k \in DOMAIN h : q[i] = q[k] => i = k } }

\* C28: once the record_request_result calls issued so far have all
\* completed, requests_made and the session request count equal their
\* number, the limiter has one timestamp for each, and the throttler is in
\* the state that applying after_request to the outcomes in some order
\* gives.
C28_NoLostUpdate ==
  (\A c \in Callers : cpc[c] = "idle")
    => /\ stats.requests_made = Len(started)
       /\ requests_in_session = Len(started)
       /\ Len(recorded) = Len(started)
       /\ Len(hourly_requests) = Len(started)
       /\ \E h \in Orders(started) :
            /\ success_count = Trailing(h, TRUE) % 5
            /\ th_failure_count = Trailing(h, FALSE)
            /\ current_delay = ReferenceDelay(h)

(***************************************************************************)
(* The two sliding windows of the limiter after record_request             *)
(* (rate_limiter.py 93-107).                                               *)
(***************************************************************************)
\* every entry of window w is at most horizon seconds old at time t
AllWithin(w, t, horizon) == \A i \in 1..Len(w) : t - w[i] <= horizon

\* C31: after every record_request call, every entry of the per-minute
\* window is at most 60 seconds old and every entry of the per-hour window
\* is at most 3600 seconds old.
C31_RecordPrunesBothWindows ==
  [][Len(recorded') = Len(recorded) + 1
       => /\ AllWithin(request_times', clock', MinuteWindow)
          /\ AllWithin(hourly_requests', clock', HourWindow)]_vars

(***************************************************************************)
(* The wait time of a denied prepare_request (rate_limiter.py 70-91 and    *)
(* 126-144): limits of 2, a burst limit of 2 and a cooldown of 90 seconds, *)
(* so that each term of _calculate_wait_time applies in some call.         *)
(***************************************************************************)
WaitConfigs ==
  { [requests_per_minute |-> 2, requests_per_hour |-> 2,
     burst_limit |-> 2, cooldown_period |-> 90] }

MaxWaitTicks == 2
WaitAdvances == {5, 61}

NextWait ==
  \/ \E j \in JitterHalves : PrepareRequest(j)
  \/ \E detected \in BOOLEAN : RecordRequestResult(~detected, detected)
  \/ \E d \in WaitAdvances : ticks < MaxWaitTicks /\ Advance(d)

SpecWait == ManagerInitWith(WaitConfigs) /\ [][NextWait]_vars

\* the remaining cooldown at time t, when a cooldown is active
CooldownTerm(t) ==
  IF cooldown_set_at # NoTime /\ t < cooldown_set_at + cooldown_period
    THEN {cooldown_set_at + cooldown_period - t}
    ELSE {}

\* 60 minus the age of the oldest entry of the per-minute window w, when
\* the window is full
MinuteTerm(t, w) ==
  IF Len(w) >= requests_per_minute THEN {60 - (t - w[1])} ELSE {}

\* 60 minus the time since the last call, when the burst limit is reached
BurstTerm(t) ==
  IF consecutive_requests >= burst_limit /\ t - last_request_time < 60
    THEN {60 - (t - last_request_time)}
    ELSE {}

\* C32: the wait time of a denied call is the maximum of the applicable
\* terms (remaining cooldown, 60 minus the age of the oldest per-minute
\* entry, 60 minus the time since the last call) and 0 when none applies;
\* the sleep performed is that value multiplied by a jitter factor drawn
\* from jitter_range.
C32_WaitTimeIsMaxOfTerms ==
  [][(op' = "prepare" /\ prepared'.denied /\ prepared'.error = "None")
       => LET terms == CooldownTerm(clock)
                         \cup MinuteTerm(clock, request_times')
                         \cup BurstTerm(clock)
          IN  \E w \in terms \cup (IF terms = {} THEN {0} ELSE {}) :
                /\ \A v \in terms : v <= w
                /\ \E j \in JitterHalves :
                     2 * prepared'.limiter_wait \in
                       IF w > 0 THEN {w * j, w * j + 1} ELSE {0}]_vars

\* a call denied during a cooldown with the per-minute window full and the
\* burst limit reached: the terms are 90, 55 and 60, the draw is 0.5
C32_Witness ==
  /\ op = "prepare"
  /\ prepared.denied
  /\ prepared.limiter_wait = 45
  /\ recorded = <<Epoch, Epoch + 5>>
  /\ cooldown_set_at = Epoch + 5
  /\ consecutive_requests = 2
  /\ ticks = 1

(***************************************************************************)
(* The before_retry callback and the default classification of retry       *)
(* (retry.py 67-74 and 95-129).                                            *)
(***************************************************************************)
\* C33: when a before_retry callback is supplied it runs before each sleep
\* of the wrapper, whether the failed attempt raised a retryable exception
\* or an unclassified one: there are never more sleeps than callback
\* invocations.
C33_CallbackBeforeEverySleep ==
  before_retry # "None" => Len(sleeps) <= Len(callbacks)

\* the malformed-input errors and the explicit cancellations
FatalByTaxonomy ==
  {"InvalidProfileURLError", "ValidationError", "KeyboardInterrupt",
   "SystemExit"}

\* C34: with the default retry_on and stop_on, a func that raises
\* InvalidProfileURLError, ValidationError, KeyboardInterrupt or SystemExit
\* is invoked exactly once and the error propagates without any retry or
\* sleep.
C34_MalformedInputIsFatal ==
  (/\ retry_on = DefaultRetryOn
   /\ stop_on = DefaultStopOn
   /\ raised # <<>>
   /\ raised[1] \in FatalByTaxonomy)
    => /\ call_count = 1
       /\ sleeps = <<>>
       /\ rpc = "done"
       /\ outcome = [kind |-> "raise", type |-> raised[1], id |-> 1]

(***************************************************************************)
(* Two successive calls of the closure of exponential_backoff              *)
(* (retry.py 34-42), for the attempt indices n and n + 1.                  *)
(***************************************************************************)
\* C35: with jitter disabled (and exponential_base >= 1) the delay for
\* attempt n + 1 is at least the delay for attempt n; with base_delay 1.0,
\* exponential_base 2 and the 25% jitter, for every n with 2^(n+1) <=
\* max_delay every delay for attempt n + 1 is strictly greater than every
\* delay for attempt n.
C35_BackoffMonotone ==
  [][(bo_delay # NoDelay /\ bo_attempt' = bo_attempt + 1)
       => /\ ~bo_jitter => bo_delay' >= bo_delay
          /\ (/\ bo_jitter
              /\ bo_base_delay = 1000
              /\ bo_exponential_base = 2
              /\ 1000 * Pow(2, bo_attempt') <= bo_max_delay)
               => bo_delay' > bo_delay]_vars

\* the lowest delay for attempt 3 (8 s less 25%) with base_delay 1.0,
\* exponential_base 2 and max_delay 10.0
C35_Witness ==
  /\ bo_jitter
  /\ bo_base_delay = 1000
  /\ bo_exponential_base = 2
  /\ bo_max_delay = 10000
  /\ bo_attempt = 3
  /\ bo_draw = -1
  /\ bo_delay = 6000

(***************************************************************************)
(* The cooldown of the limiter when the system clock is set.  clock is     *)
(* time.time() (rate_limiter.py 46 and 113); skew is the sum of the        *)
(* adjustments made to it, so that clock - skew is the time really         *)
(* elapsed.                                                                *)
(***************************************************************************)
ClockAdjustments == {-30, 30}

\* the system clock is set forward or backward by d seconds
AdjustClock(d) ==
  /\ ticks < MaxTicks
  /\ clock' = clock + d
  /\ skew' = skew + d
  /\ ticks' = ticks + 1
  /\ op' = "none"
  /\ allowed' = FALSE
  /\ UNCHANGED <<requests_per_minute, requests_per_hour, burst_limit,
                 cooldown_period, request_times, hourly_requests,
                 consecutive_requests, last_request_time, cooldown_until,
                 recorded, cooldown_set_at, trigger_skew>>
  /\ UNCHANGED <<cbvars, rtvars, prvars, ccvars, bovars, thvars, mgvars>>

\* a caller of the limiter calls trigger_cooldown()
TriggerCooldown ==
  /\ cooldown_set_at = NoTime
  /\ trigger_cooldown(0)
  /\ trigger_skew' = skew
  /\ op' = "cooldown"
  /\ allowed' = FALSE
  /\ UNCHANGED <<requests_per_minute, requests_per_hour, burst_limit,
                 cooldown_period, request_times, hourly_requests,
                 consecutive_requests, last_request_time, clock, ticks,
                 recorded, skew>>
  /\ UNCHANGED <<cbvars, rtvars, prvars, ccvars, bovars, thvars, mgvars>>

NextWallClock ==
  \/ CanMakeRequest
  \/ TriggerCooldown
  \/ \E d \in Advances : Advance(d)
  \/ \E d \in ClockAdjustments : AdjustClock(d)

SpecWallClock == LimiterInit /\ [][NextWallClock]_vars

\* the time really elapsed since the last trigger_cooldown call
ElapsedSinceTrigger == (clock - skew) - (cooldown_set_at - trigger_skew)

\* C36: whatever adjustments are made to the system clock while a cooldown
\* is pending, the cooldown ends exactly cooldown_period of really elapsed
\* time after it was triggered: with no call recorded, can_make_request
\* returns True exactly when that time has passed.
C36_CooldownImmuneToClockAdjustment ==
  (op = "allow" /\ cooldown_set_at # NoTime /\ recorded = <<>>)
    => (allowed <=> ElapsedSinceTrigger >= cooldown_period)

(***************************************************************************)
(* One caller that strictly alternates prepare_request and                 *)
(* record_request_result on a manager with limits of one call per minute   *)
(* and per hour (rate_limiter.py 400-436).                                 *)
(***************************************************************************)
ProtocolConfigs ==
  { [requests_per_minute |-> 1, requests_per_hour |-> 1,
     burst_limit |-> 5, cooldown_period |-> 60] }

NextProtocol ==
  \/ \E j \in JitterHalves : prepares = Len(recorded) /\ PrepareRequest(j)
  \/ \E detected \in BOOLEAN :
       /\ prepares = Len(recorded) + 1
       /\ RecordRequestResult(~detected, detected)
  \/ \E d \in WaitAdvances : ticks < MaxWaitTicks /\ Advance(d)

SpecProtocol == ManagerInitWith(ProtocolConfigs) /\ [][NextProtocol]_vars

\* C37: when every caller strictly alternates prepare_request and
\* record_request_result, the number of calls recorded in the trailing 60
\* seconds never exceeds requests_per_minute and the number recorded in the
\* trailing 3600 seconds never exceeds requests_per_hour, whatever the
\* jitter draws.
C37_ProtocolRateBound ==
  /\ RecordedWithin(MinuteWindow) <= requests_per_minute
  /\ RecordedWithin(HourWindow) <= requests_per_hour

\* C38: after record_request_result(detected=True) at time t, no
\* prepare_request call returns before t + cooldown_period, whatever the
\* jitter draw.
C38_PrepareHonoursCooldown ==
  (op = "prepare" /\ prepared.error = "None" /\ cooldown_set_at # NoTime)
    => clock >= cooldown_set_at + cooldown_period

(***************************************************************************)
(* The state and the counters of CircuitBreaker between the calls of one   *)
(* sequential caller (retry.py 156-213).                                   *)
(***************************************************************************)
\* no call of wrapper is in progress
BetweenCalls == \A c \in Callers : pc[c] \in {"idle", "done"}

\* C39: with one call at a time and failure_threshold >= 1, whenever no
\* call is in progress, state CLOSED implies failure_count <
\* failure_threshold, and state OPEN or HALF_OPEN implies failure_count >=
\* failure_threshold and last_failure_time set; a call rejected while OPEN
\* leaves failure_count, last_failure_time and state as they were when it
\* began.
C39_StateMatchesCounters ==
  BetweenCalls =>
    /\ state = "CLOSED" => failure_count < failure_threshold
    /\ state \in {"OPEN", "HALF_OPEN"}
         => (failure_count >= failure_threshold /\ last_failure_time # NoTime)
    /\ \A c \in Callers :
         (pc[c] = "done" /\ result[c] = CircuitOpenError)
           => (state = "OPEN" /\ entry[c] = <<failure_count, last_failure_time>>)

\* a call rejected one second after the second of two failures
C39_Witness ==
  \E c \in Callers :
    /\ pc[c] = "done"
    /\ result[c] = CircuitOpenError
    /\ state = "OPEN"
    /\ failure_threshold = 2
    /\ failure_count = 2
    /\ last_failure_time = 0
    /\ now = 1
    /\ entry[c] = <<2, 0>>

(***************************************************************************)
(* Progress of the limiter and of prepare_request (rate_limiter.py 43-91   *)
(* and 400-423): two threads on one manager with limits of one call, each  *)
(* thread running its call statement by statement, time passing during the *)
(* sleeps and between the calls.                                           *)
(***************************************************************************)
MaxLiveCalls == 2

LiveCallers == {1, 2}

LiveConfigs ==
  { [requests_per_minute |-> 1, requests_per_hour |-> 1,
     burst_limit |-> 1, cooldown_period |-> 60] }

LiveAdvances == {3601}

\* the times at which a recorded call leaves the hour window or a cooldown
\* ends
PendingEnds ==
  {recorded[i] + HourWindow : i \in 1..Len(recorded)}
    \cup (IF cooldown_until # NoTime THEN {cooldown_until} ELSE {})

\* time passes between the calls, as long as a recorded call or a cooldown
\* has not left its window
Idle(d) ==
  /\ \A c \in LiveCallers : cpc[c] = "idle"
  /\ \E e \in PendingEnds : clock <= e
  /\ clock' = clock + d
  /\ UNCHANGED <<LimiterState, SessionState, ThrottlerState, stats, lock, cpc,
                 creg, conc_calls, returns, started, ConcFixed>>

\* a thread runs the next statement of its call
LiveStep ==
  \E c \in LiveCallers : PrepareStep(c) \/ RecordStep(c)

NextLive ==
  \/ \E c \in LiveCallers : conc_calls < MaxLiveCalls /\ ManagerCall(c)
  \/ LiveStep
  \/ Elapse
  \/ \E d \in LiveAdvances : Idle(d)

\* the threads keep running and time keeps passing; callers need not call
SpecLive ==
  /\ ManagerInitWith(LiveConfigs)
  /\ [][NextLive]_vars
  /\ WF_vars(LiveStep)
  /\ WF_vars(Elapse)
  /\ WF_vars(\E d \in LiveAdvances : Idle(d))

\* the position of a statement in prepare_request
PreparePosition(at) ==
  CASE at = "can_make_request" -> 1
    [] at = "with_lock" -> 2
    [] at = "limiter_sleep" -> 3
    [] at = "rate_limit_waits" -> 4
    [] at = "before_request" -> 5
    [] at = "throttle_sleep" -> 6
    [] at = "last_request_time" -> 7
    [] at = "should_rotate_session" -> 8
    [] OTHER -> 9

\* C40: once no further call is recorded and no further cooldown is
\* triggered, can_make_request eventually returns True and goes on doing
\* so as time advances; every call in progress ends; and a prepare_request
\* call only moves forward through its statements, so that it passes the
\* limiter sleep and the throttler sleep at most once each.
C40_LimiterEventuallyAdmits ==
  /\ <>[]can_make_request(clock)
  /\ \A c \in LiveCallers : (cpc[c] # "idle") ~> (cpc[c] = "idle")
  /\ [][\A c \in LiveCallers :
          (creg[c].call = "prepare" /\ cpc'[c] # cpc[c])
            => PreparePosition(cpc'[c]) > PreparePosition(cpc[c])]_vars

\* a prepare_request denied after a recorded call has slept in the limiter
\* and returned, and more than an hour later the limiter admits again
C40_Witness ==
  /\ \A c \in LiveCallers : cpc[c] = "idle"
  /\ Len(recorded) = 1
  /\ stats.rate_limit_waits = 1
  /\ Len(returns) = 1
  /\ clock > recorded[1] + HourWindow
  /\ can_make_request(clock)

====
